---- MODULE Spec2Model ----
(***************************************************************************)
(* A model of the WhatsApp sentiment analyzer: the chat line parser        *)
(* (backend/services/nlp_service.py), the sentiment ensemble               *)
(* (backend/services/sentiment.py), the disagreement engine                *)
(* (backend/services/explainable_ai_service.py) and the job registries of  *)
(* the two API versions (backend/main.py, backend/main_v2.py).             *)
(*                                                                         *)
(* A text is a sequence of characters; a character is a one-character      *)
(* string, except "LRM", which stands for U+200E LEFT-TO-RIGHT MARK (a     *)
(* non-printable, non-whitespace character WhatsApp exports contain).      *)
(***************************************************************************)
EXTENDS Integers, Sequences, FiniteSets, TLC

VARIABLES
    content,        \* ChatParser.parse: the chat text given to parse
    lines,          \* ChatParser.parse: content.splitlines()
    idx,            \* ChatParser.parse: number of lines the loop has consumed
    messages,       \* ChatParser.parse: the messages list
    failed_lines,   \* ChatParser.parse: the failed_lines list
    text,           \* SentimentAnalyzer.analyze: the text analyzed
    vader_lib,      \* what self.vader.polarity_scores(text)['compound'] yields for text
    textblob_lib,   \* what TextBlob(text).sentiment.polarity yields for text
    scorer_calls,   \* the scorers analyze has called
    sentiment,      \* the result of SentimentAnalyzer.analyze(text)
    disagreement,   \* the result of find_disagreements on the scores of sentiment
    job_store,      \* main.py: the in-memory job registry job_store
    jobs_table,     \* database_v2.py: the rows of the jobs table
    messages_v1,    \* database.py: the ids of the rows of the messages table
    messages_v2,    \* database_v2.py: the ids of the rows of the messages table
    task,           \* per job id: the request and background task working on it
    chat,           \* NLPService.analyze_chat(content): its position, locals and result
    reader,         \* main.py get_analysis_results: a status read, its locals and response
    request,        \* a call of one of the stateless functions: its name and arguments
    reply           \* what the call of request returned

parserVars == <<content, lines, idx, messages, failed_lines>>
sentimentVars == <<text, vader_lib, textblob_lib, scorer_calls, sentiment, disagreement>>
jobVars == <<job_store, jobs_table, messages_v1, messages_v2, task>>
chatVars == <<chat>>
readerVars == <<reader>>
serviceVars == <<request, reply>>

----------------------------------------------------------------------------
(* Bounds *)

MaxLines == 3       \* lines of a chat text
MaxPrefix == 2      \* words at the head of a text given to extract_important_words
MaxRepeat == 10     \* repetitions of one word after them
MaxParts == 3       \* parts of a text given to detect_message_type or to detect
MaxLimit == 2       \* limit and offset of a call of query_messages
ScoreSteps == 2     \* scorer scores are the multiples of 0.05 / ScoreSteps in [-1, 1]
MaxJobs == 2        \* uploads
MaxMsgs == 1        \* analyzed messages of an upload
MaxKeys == 1        \* distinct (timestamp, sender) pairs of the messages of an upload

----------------------------------------------------------------------------
(* Characters and str methods *)

Digits == {"0","1","2","3","4","5","6","7","8","9"}
Whitespace == {" ", "\t", "\n", "\r"}
NonPrintable == {"\t", "\n", "\r", "LRM"}
Uppers == <<"A","B","C","D","E","F","G","H","I","J","K","L","M",
            "N","O","P","Q","R","S","T","U","V","W","X","Y","Z">>
Lowers == <<"a","b","c","d","e","f","g","h","i","j","k","l","m",
            "n","o","p","q","r","s","t","u","v","w","x","y","z">>

\* s[p], or "" when p is outside s
At(s, p) == IF p \in 1..Len(s) THEN s[p] ELSE ""

IsDigit(c) == c \in Digits
IsSpace(c) == c \in Whitespace
IsPrintable(c) == c \notin NonPrintable

\* str.lower() of one character
LowerChar(c) ==
    IF \E i \in 1..26 : Uppers[i] = c
    THEN Lowers[CHOOSE i \in 1..26 : Uppers[i] = c]
    ELSE c

\* str.lower()
Lower(s) == [i \in 1..Len(s) |-> LowerChar(s[i])]

RECURSIVE LStrip(_)
LStrip(s) == IF s # <<>> /\ IsSpace(Head(s)) THEN LStrip(Tail(s)) ELSE s

RECURSIVE RStrip(_)
RStrip(s) ==
    IF s # <<>> /\ IsSpace(s[Len(s)]) THEN RStrip(SubSeq(s, 1, Len(s) - 1)) ELSE s

\* str.strip()
Strip(s) == RStrip(LStrip(s))

\* kw in s
Contains(s, kw) ==
    \E i \in 1..(Len(s) - Len(kw) + 1) : SubSeq(s, i, i + Len(kw) - 1) = kw

\* ''.join(c for c in s if c.isprintable())
OnlyPrintable(s) == SelectSeq(s, IsPrintable)

\* number of consecutive digits of s from position p on
RECURSIVE DigitRun(_, _)
DigitRun(s, p) == IF IsDigit(At(s, p)) THEN 1 + DigitRun(s, p + 1) ELSE 0

\* first position >= p of s that holds no whitespace (regex \s*)
RECURSIVE SkipSpace(_, _)
SkipSpace(s, p) == IF IsSpace(At(s, p)) THEN SkipSpace(s, p + 1) ELSE p

\* first position >= p of s that holds a character of C, 0 when there is none
FindAny(s, C, p) ==
    LET hits == {i \in p..Len(s) : s[i] \in C}
    IN  IF hits = {} THEN 0 ELSE CHOOSE i \in hits : \A j \in hits : i <= j

\* first position >= p of s that holds c, 0 when there is none
Find(s, c, p) == FindAny(s, {c}, p)

\* str.splitlines(): breaks at "\n", "\r" and "\r\n"; no empty last line
RECURSIVE SplitFrom(_, _)
SplitFrom(s, p) ==
    LET b == FindAny(s, {"\n", "\r"}, p) IN
    IF p > Len(s) THEN <<>>
    ELSE IF b = 0 THEN <<SubSeq(s, p, Len(s))>>
    ELSE <<SubSeq(s, p, b - 1)>>
         \o SplitFrom(s, IF s[b] = "\r" /\ At(s, b + 1) = "\n" THEN b + 2 ELSE b + 1)

SplitLines(s) == SplitFrom(s, 1)

----------------------------------------------------------------------------
\* ChatParser.START_RE, a regular expression of four named groups:
\*   date     \d{1,2}[/-]\d{1,2}[/-]\d{2,4}  or  \d{4}-\d{1,2}-\d{1,2}
\*   then an optional comma and whitespace
\*   time     \d{1,2}:\d{2}, optional :\d{2}, optional whitespace and [APMapm]{2}
\*   then whitespace, a dash, whitespace
\*   sender   one or more characters other than a colon (lazy), then a colon
\*   message  the rest of the line after whitespace

DateSeps == {"/", "-"}
AmPmChars == {"A", "P", "M", "a", "p", "m"}

\* The lengths of the prefixes of s that the date group can match.
DateCands(s) ==
    LET n1 == DigitRun(s, 1) IN
    IF n1 \in {1, 2} /\ At(s, n1 + 1) \in DateSeps
    THEN LET n2 == DigitRun(s, n1 + 2) IN
         IF n2 \in {1, 2} /\ At(s, n1 + n2 + 2) \in DateSeps
         THEN LET p == n1 + n2 + 2
                  r == DigitRun(s, p + 1)
              IN {p + k : k \in {j \in {2, 3, 4} : j <= r}}
         ELSE {}
    ELSE IF n1 = 4 /\ At(s, 5) = "-"
    THEN LET n2 == DigitRun(s, 6) IN
         IF n2 \in {1, 2} /\ At(s, 6 + n2) = "-"
         THEN LET p == 6 + n2
                  r == DigitRun(s, p + 1)
              IN {p + k : k \in {j \in {1, 2} : j <= r}}
         ELSE {}
    ELSE {}

NoMatch == [ok |-> FALSE, date |-> <<>>, time |-> <<>>, sender |-> <<>>, message |-> <<>>]

\* RestMatch with a greedy sender group: the sender runs up to the last colon
RestMatchGreedySender(s, q) ==
    LET q1 == IF At(s, q) = "," THEN q + 1 ELSE q
        t0 == SkipSpace(s, q1)
        h  == DigitRun(s, t0)
        m0 == t0 + h + 1
        s0 == m0 + 2
        s1 == IF At(s, s0) = ":" /\ IsDigit(At(s, s0 + 1)) /\ IsDigit(At(s, s0 + 2))
              THEN s0 + 3 ELSE s0
        a0 == SkipSpace(s, s1)
        t1 == IF At(s, a0) \in AmPmChars /\ At(s, a0 + 1) \in AmPmChars
              THEN a0 + 2 ELSE s1
        d  == SkipSpace(s, t1)
        colons == {i \in (d + 1)..Len(s) : s[i] = ":"}
        c  == IF colons = {} THEN 0 ELSE CHOOSE i \in colons : \A j \in colons : j <= i
    IN  IF /\ h \in {1, 2}
           /\ At(s, t0 + h) = ":"
           /\ IsDigit(At(s, m0)) /\ IsDigit(At(s, m0 + 1))
           /\ At(s, d) = "-"
           /\ c > d + 1
        THEN [ok |-> TRUE,
              date |-> SubSeq(s, 1, q - 1),
              time |-> SubSeq(s, t0, t1 - 1),
              sender |-> SubSeq(s, d + 1, c - 1),
              message |-> SubSeq(s, c + 1, Len(s))]
        ELSE NoMatch

\* The rest of the pattern from position q on, after a date of s[1..q-1].
RestMatch(s, q) ==
    LET q1 == IF At(s, q) = "," THEN q + 1 ELSE q      \* ,?
        t0 == SkipSpace(s, q1)                         \* \s*
        h  == DigitRun(s, t0)                          \* \d{1,2}
        m0 == t0 + h + 1                               \* after the ":"
        s0 == m0 + 2                                   \* after \d{2}
        s1 == IF At(s, s0) = ":" /\ IsDigit(At(s, s0 + 1)) /\ IsDigit(At(s, s0 + 2))
              THEN s0 + 3 ELSE s0                      \* (?::\d{2})?
        a0 == SkipSpace(s, s1)
        t1 == IF At(s, a0) \in AmPmChars /\ At(s, a0 + 1) \in AmPmChars
              THEN a0 + 2 ELSE s1                      \* (?:\s*[APMapm]{2})?
        d  == SkipSpace(s, t1)                         \* \s* and then "-"
        c  == Find(s, ":", d + 1)                      \* the first colon after the dash
    IN  IF /\ h \in {1, 2}
           /\ At(s, t0 + h) = ":"
           /\ IsDigit(At(s, m0)) /\ IsDigit(At(s, m0 + 1))
           /\ At(s, d) = "-"
           /\ c > d + 1                                \* [^:]+? takes at least one character
        THEN [ok |-> TRUE,
              date |-> SubSeq(s, 1, q - 1),
              time |-> SubSeq(s, t0, t1 - 1),
              sender |-> SubSeq(s, d + 1, c - 1),
              message |-> SubSeq(s, c + 1, Len(s))]
        ELSE NoMatch

SetMax(S) == CHOOSE x \in S : \A y \in S : y <= x

\* START_RE.match(line): the greedy date quantifier takes the longest date
\* for which the rest of the pattern matches.  The sender and message
\* groups are given up to surrounding whitespace (the \s* of the pattern);
\* parse strips both.
Match(line) ==
    LET good == {e \in DateCands(line) : RestMatch(line, e + 1).ok}
    IN  IF good = {} THEN NoMatch ELSE RestMatch(line, SetMax(good) + 1)

----------------------------------------------------------------------------
(* datetime.strptime against the templates of parse, and isoformat *)

DigitSeq == <<"0","1","2","3","4","5","6","7","8","9">>

DigitVal(c) == (CHOOSE i \in 1..10 : DigitSeq[i] = c) - 1

\* int(ds) of a sequence of digits
RECURSIVE ToInt(_)
ToInt(ds) ==
    IF ds = <<>> THEN 0
    ELSE 10 * ToInt(SubSeq(ds, 1, Len(ds) - 1)) + DigitVal(ds[Len(ds)])

\* n written with w digits
RECURSIVE Pad(_, _)
Pad(n, w) == IF w = 0 THEN <<>> ELSE Append(Pad(n \div 10, w - 1), DigitSeq[(n % 10) + 1])

\* the three digit fields of a date group and the two separators
DateParts(date) ==
    LET n1 == DigitRun(date, 1)
        n2 == DigitRun(date, n1 + 2)
    IN  [f1 |-> SubSeq(date, 1, n1), sep1 |-> date[n1 + 1],
         f2 |-> SubSeq(date, n1 + 2, n1 + n2 + 1), sep2 |-> date[n1 + n2 + 2],
         f3 |-> SubSeq(date, n1 + n2 + 3, Len(date))]

\* the hour and minute fields of a time group and what follows them
TimeParts(time) ==
    LET h == DigitRun(time, 1)
    IN  [hh |-> SubSeq(time, 1, h), mm |-> SubSeq(time, h + 2, h + 3),
         suffix |-> SubSeq(time, h + 4, Len(time))]

\* %m and %I: 1[0-2]|0[1-9]|[1-9]
IsMonthField(ds) == Len(ds) \in {1, 2} /\ ToInt(ds) \in 1..12
\* %d: 3[0-1]|[1-2]\d|0[1-9]|[1-9]
IsDayField(ds) == Len(ds) \in {1, 2} /\ ToInt(ds) \in 1..31
\* %H: 2[0-3]|[0-1]\d|\d
IsHourField(ds) == Len(ds) \in {1, 2} /\ ToInt(ds) \in 0..23
\* %M: [0-5]\d|\d, on the two digits START_RE captured
IsMinuteField(ds) == ToInt(ds) \in 0..59
\* " %p" at the end: whitespace, then am or pm in any case
IsAmPmSuffix(suffix) ==
    /\ Len(LStrip(suffix)) < Len(suffix)
    /\ Lower(LStrip(suffix)) \in {<<"a","m">>, <<"p","m">>}

IsLeap(y) == y % 4 = 0 /\ (y % 100 # 0 \/ y % 400 = 0)
DaysInMonth(y, m) ==
    IF m = 2 THEN (IF IsLeap(y) THEN 29 ELSE 28)
    ELSE IF m \in {4, 6, 9, 11} THEN 30 ELSE 31

\* %y: 69..99 are 1969..1999, 0..68 are 2000..2068
Year2(ds) == IF ToInt(ds) < 69 THEN 2000 + ToInt(ds) ELSE 1900 + ToInt(ds)

\* %I with %p
Hour12(hh, suffix) ==
    (ToInt(hh) % 12) + (IF Lower(LStrip(suffix)) = <<"p","m">> THEN 12 ELSE 0)

NoDate == [ok |-> FALSE, year |-> 0, month |-> 0, day |-> 0, hour |-> 0, minute |-> 0]

\* datetime(y, mo, d, h, mi), a ValueError when the date does not exist
MakeDate(y, mo, d, h, mi) ==
    IF y >= 1 /\ d <= DaysInMonth(y, mo)
    THEN [ok |-> TRUE, year |-> y, month |-> mo, day |-> d, hour |-> h, minute |-> mi]
    ELSE NoDate

NumFormats == 5

\* datetime.strptime(f"{date}, {time}", fmt) for the i-th template of parse:
\*   1 "%m/%d/%Y, %I:%M %p"   2 "%m/%d/%y, %I:%M %p"   3 "%d/%m/%Y, %H:%M"
\*   4 "%Y-%m-%d, %H:%M"      5 "%m/%d/%Y, %H:%M"
Strptime(i, date, time) ==
    LET d == DateParts(date)
        t == TimeParts(time)
        slashes == d.sep1 = "/" /\ d.sep2 = "/"
        dashes == d.sep1 = "-" /\ d.sep2 = "-"
        clock12 == IsMonthField(t.hh) /\ IsMinuteField(t.mm) /\ IsAmPmSuffix(t.suffix)
        clock24 == IsHourField(t.hh) /\ IsMinuteField(t.mm) /\ t.suffix = <<>>
    IN  CASE i = 1 ->
               IF slashes /\ IsMonthField(d.f1) /\ IsDayField(d.f2) /\ Len(d.f3) = 4 /\ clock12
               THEN MakeDate(ToInt(d.f3), ToInt(d.f1), ToInt(d.f2), Hour12(t.hh, t.suffix), ToInt(t.mm))
               ELSE NoDate
          [] i = 2 ->
               IF slashes /\ IsMonthField(d.f1) /\ IsDayField(d.f2) /\ Len(d.f3) = 2 /\ clock12
               THEN MakeDate(Year2(d.f3), ToInt(d.f1), ToInt(d.f2), Hour12(t.hh, t.suffix), ToInt(t.mm))
               ELSE NoDate
          [] i = 3 ->
               IF slashes /\ IsDayField(d.f1) /\ IsMonthField(d.f2) /\ Len(d.f3) = 4 /\ clock24
               THEN MakeDate(ToInt(d.f3), ToInt(d.f2), ToInt(d.f1), ToInt(t.hh), ToInt(t.mm))
               ELSE NoDate
          [] i = 4 ->
               IF dashes /\ Len(d.f1) = 4 /\ IsMonthField(d.f2) /\ IsDayField(d.f3) /\ clock24
               THEN MakeDate(ToInt(d.f1), ToInt(d.f2), ToInt(d.f3), ToInt(t.hh), ToInt(t.mm))
               ELSE NoDate
          [] OTHER ->
               IF slashes /\ IsMonthField(d.f1) /\ IsDayField(d.f2) /\ Len(d.f3) = 4 /\ clock24
               THEN MakeDate(ToInt(d.f3), ToInt(d.f1), ToInt(d.f2), ToInt(t.hh), ToInt(t.mm))
               ELSE NoDate

\* datetime.isoformat(): YYYY-MM-DDTHH:MM:00
IsoFormat(dt) ==
    Pad(dt.year, 4) \o <<"-">> \o Pad(dt.month, 2) \o <<"-">> \o Pad(dt.day, 2)
    \o <<"T">> \o Pad(dt.hour, 2) \o <<":">> \o Pad(dt.minute, 2) \o <<":", "0", "0">>

\* f"{date_str}, {time_str}"
RawTimestamp(date_str, time_str) == date_str \o <<",", " ">> \o time_str

\* IsoTimestamp without the break of the loop: the last template that parses
IsoTimestampLastFormat(date_str, time_str) ==
    LET parsed == {i \in 1..NumFormats : Strptime(i, date_str, time_str).ok}
    IN  IF parsed = {} THEN RawTimestamp(date_str, time_str)
        ELSE IsoFormat(Strptime(CHOOSE i \in parsed : \A j \in parsed : j <= i,
                                date_str, time_str))

\* iso_ts of parse: the first template that parses, else the raw timestamp
IsoTimestamp(date_str, time_str) ==
    LET parsed == {i \in 1..NumFormats : Strptime(i, date_str, time_str).ok}
    IN  IF parsed = {} THEN RawTimestamp(date_str, time_str)
        ELSE IsoFormat(Strptime(CHOOSE i \in parsed : \A j \in parsed : i <= j,
                                date_str, time_str))

----------------------------------------------------------------------------
(* ChatParser.parse *)

KwSecured == <<"s","e","c","u","r","e","d">>
KwCreatedGroup == <<"c","r","e","a","t","e","d"," ","g","r","o","u","p">>
KwChanged == <<"c","h","a","n","g","e","d">>
KwLeftGroup == <<"l","e","f","t"," ","g","r","o","u","p">>
KwAdded == <<"a","d","d","e","d">>
AliasSystem == <<"s","y","s","t","e","m">>
AliasYou == <<"y","o","u">>
AliasGroupNotification == <<"g","r","o","u","p"," ","n","o","t","i","f","i","c","a","t","i","o","n">>
SystemSender == <<"S","y","s","t","e","m">>

SystemAliases == {AliasSystem, AliasYou, AliasGroupNotification}
SystemKeywords == {KwSecured, KwCreatedGroup, KwChanged, KwLeftGroup, KwAdded}

\* sender = m.group('sender').strip(); drop non-printables; strip again
NormalizeSender(raw) == Strip(OnlyPrintable(Strip(raw)))

\* IsSystemMessage that looks for the keywords in the body as written
IsSystemMessageCaseSensitive(sender, msg_content) ==
    \/ Lower(sender) \in SystemAliases
    \/ \E kw \in SystemKeywords : Contains(msg_content, kw)

\* the system-message test of parse
IsSystemMessage(sender, msg_content) ==
    \/ Lower(sender) \in SystemAliases
    \/ \E kw \in SystemKeywords : Contains(Lower(msg_content), kw)

\* the message parse appends for a line that START_RE matches
NewMessage(line) ==
    LET m == Match(line)
        sender == NormalizeSender(m.sender)
        msg_content == Strip(m.message)
    IN  [timestamp |-> IsoTimestamp(m.date, m.time),
         raw_timestamp |-> RawTimestamp(m.date, m.time),
         sender |-> IF IsSystemMessage(sender, msg_content) THEN SystemSender ELSE sender,
         message |-> msg_content]

\* the line the loop of parse looks at next
CurLine == lines[idx + 1]

\* ParseBlank without the blank-line test of parse: the line is merged
ParseBlankMerged ==
    /\ idx < Len(lines)
    /\ Strip(CurLine) = <<>>
    /\ messages' = IF messages = <<>> THEN messages
                   ELSE [messages EXCEPT ![Len(messages)].message = @ \o <<"\n">> \o Strip(CurLine)]
    /\ idx' = idx + 1
    /\ UNCHANGED <<content, lines, failed_lines>>
    /\ UNCHANGED sentimentVars
    /\ UNCHANGED jobVars
    /\ UNCHANGED chatVars
    /\ UNCHANGED readerVars
    /\ UNCHANGED serviceVars

\* if not line.strip(): continue
ParseBlank ==
    /\ idx < Len(lines)
    /\ Strip(CurLine) = <<>>
    /\ idx' = idx + 1
    /\ UNCHANGED <<content, lines, messages, failed_lines>>
    /\ UNCHANGED sentimentVars
    /\ UNCHANGED jobVars
    /\ UNCHANGED chatVars
    /\ UNCHANGED readerVars
    /\ UNCHANGED serviceVars

\* if m: ... messages.append({...})
ParseStart ==
    /\ idx < Len(lines)
    /\ Strip(CurLine) # <<>>
    /\ Match(CurLine).ok
    /\ messages' = Append(messages, NewMessage(CurLine))
    /\ idx' = idx + 1
    /\ UNCHANGED <<content, lines, failed_lines>>
    /\ UNCHANGED sentimentVars
    /\ UNCHANGED jobVars
    /\ UNCHANGED chatVars
    /\ UNCHANGED readerVars
    /\ UNCHANGED serviceVars

\* ParseContinuation that merges the line as it is, not trimmed
ParseContinuationUntrimmed ==
    /\ idx < Len(lines)
    /\ Strip(CurLine) # <<>>
    /\ ~Match(CurLine).ok
    /\ messages # <<>>
    /\ messages' = [messages EXCEPT ![Len(messages)].message = @ \o <<"\n">> \o CurLine]
    /\ idx' = idx + 1
    /\ UNCHANGED <<content, lines, failed_lines>>
    /\ UNCHANGED sentimentVars
    /\ UNCHANGED jobVars
    /\ UNCHANGED chatVars
    /\ UNCHANGED readerVars
    /\ UNCHANGED serviceVars

\* else: if messages: messages[-1]['message'] += "\n" + line.strip()
ParseContinuation ==
    /\ idx < Len(lines)
    /\ Strip(CurLine) # <<>>
    /\ ~Match(CurLine).ok
    /\ messages # <<>>
    /\ messages' = [messages EXCEPT ![Len(messages)].message = @ \o <<"\n">> \o Strip(CurLine)]
    /\ idx' = idx + 1
    /\ UNCHANGED <<content, lines, failed_lines>>
    /\ UNCHANGED sentimentVars
    /\ UNCHANGED jobVars
    /\ UNCHANGED chatVars
    /\ UNCHANGED readerVars
    /\ UNCHANGED serviceVars

\* ParseFailed that records every line that does not match, also after a message
ParseFailedAnywhere ==
    /\ idx < Len(lines)
    /\ Strip(CurLine) # <<>>
    /\ ~Match(CurLine).ok
    /\ failed_lines' = Append(failed_lines, CurLine)
    /\ messages' = IF messages = <<>> THEN messages
                   ELSE [messages EXCEPT ![Len(messages)].message = @ \o <<"\n">> \o Strip(CurLine)]
    /\ idx' = idx + 1
    /\ UNCHANGED <<content, lines>>
    /\ UNCHANGED sentimentVars
    /\ UNCHANGED jobVars
    /\ UNCHANGED chatVars
    /\ UNCHANGED readerVars
    /\ UNCHANGED serviceVars

\* else: failed_lines.append(line)
ParseFailed ==
    /\ idx < Len(lines)
    /\ Strip(CurLine) # <<>>
    /\ ~Match(CurLine).ok
    /\ messages = <<>>
    /\ failed_lines' = Append(failed_lines, CurLine)
    /\ idx' = idx + 1
    /\ UNCHANGED <<content, lines, messages>>
    /\ UNCHANGED sentimentVars
    /\ UNCHANGED jobVars
    /\ UNCHANGED chatVars
    /\ UNCHANGED readerVars
    /\ UNCHANGED serviceVars

----------------------------------------------------------------------------
(* Numbers: the floats of the sentiment code are modelled as exact         *)
(* fractions [n, d] with d > 0, kept in lowest terms.                      *)

Abs(i) == IF i < 0 THEN -i ELSE i

RECURSIVE Gcd(_, _)
Gcd(a, b) == IF b = 0 THEN a ELSE Gcd(b, a % b)

Frac(n, d) ==
    LET g == Gcd(Abs(n), d) IN [n |-> n \div g, d |-> d \div g]

FAdd(x, y) == Frac(x.n * y.d + y.n * x.d, x.d * y.d)
FSub(x, y) == Frac(x.n * y.d - y.n * x.d, x.d * y.d)
FMul(x, y) == Frac(x.n * y.n, x.d * y.d)
FAbs(x) == [n |-> Abs(x.n), d |-> x.d]
FLe(x, y) == x.n * y.d <= y.n * x.d
FLt(x, y) == x.n * y.d < y.n * x.d
FMin(x, y) == IF FLe(x, y) THEN x ELSE y
FMax(x, y) == IF FLe(x, y) THEN y ELSE x
FNeg(x) == [n |-> -x.n, d |-> x.d]

Zero == Frac(0, 1)
One == Frac(1, 1)

RECURSIVE FSum(_)
FSum(xs) == IF xs = <<>> THEN Zero ELSE FAdd(Head(xs), FSum(Tail(xs)))

\* sum(xs) / len(xs) if xs else 0
Average(xs) == IF xs = <<>> THEN Zero ELSE FMul(FSum(xs), Frac(1, Len(xs)))

----------------------------------------------------------------------------
(* SentimentAnalyzer *)

VaderThreshold == Frac(5, 100)          \* 0.05 in _analyze_vader
TextBlobThreshold == Frac(1, 10)        \* 0.1 in _analyze_textblob
\* the ensemble threshold taken as wide as the threshold of _analyze_textblob
EnsembleThresholdWide == Frac(1, 10)
EnsembleThreshold == Frac(5, 100)       \* 0.05 in _ensemble_scores
VaderWeight == Frac(6, 10)              \* 0.6 in _ensemble_scores
TextBlobWeight == Frac(4, 10)           \* 0.4 in _ensemble_scores

\* what a library call does: it returns a score or raises an exception
Returns(score) == [raises |-> FALSE, score |-> score]
Raises == [raises |-> TRUE, score |-> Zero]

NeutralResult == [score |-> Zero, label |-> "Neutral"]

\* _analyze_vader once polarity_scores returned compound (the method has
\* no exception handler of its own)
AnalyzeVader(compound) ==
    [score |-> compound,
     label |-> IF FLe(VaderThreshold, compound) THEN "Positive"
               ELSE IF FLe(compound, FNeg(VaderThreshold)) THEN "Negative"
               ELSE "Neutral"]

\* _analyze_textblob: the polarity, or the exception the handler turns neutral
AnalyzeTextBlob(lib) ==
    IF lib.raises THEN NeutralResult
    ELSE LET polarity == lib.score IN
         [score |-> polarity,
          label |-> IF FLt(TextBlobThreshold, polarity) THEN "Positive"
                    ELSE IF FLt(polarity, FNeg(TextBlobThreshold)) THEN "Negative"
                    ELSE "Neutral"]

\* EnsembleScores with the weights 0.5 and 0.25
EnsembleScoresHalfQuarter(vader, textblob) ==
    LET ensemble_score == FAdd(FMul(vader.score, Frac(5, 10)), FMul(textblob.score, Frac(25, 100)))
        agreement == FSub(One, FMul(FAbs(FSub(vader.score, textblob.score)), Frac(1, 2)))
        confidence == FMul(FAbs(ensemble_score), FMax(Zero, FMin(One, agreement)))
    IN  [score |-> ensemble_score,
         label |-> IF FLe(EnsembleThreshold, ensemble_score) THEN "Positive"
                   ELSE IF FLe(ensemble_score, FNeg(EnsembleThreshold)) THEN "Negative"
                   ELSE "Neutral",
         confidence |-> FMin(confidence, One)]

\* EnsembleScores with the strict comparisons of _analyze_textblob
EnsembleScoresStrict(vader, textblob) ==
    LET ensemble_score == FAdd(FMul(vader.score, VaderWeight), FMul(textblob.score, TextBlobWeight))
        agreement == FSub(One, FMul(FAbs(FSub(vader.score, textblob.score)), Frac(1, 2)))
        confidence == FMul(FAbs(ensemble_score), FMax(Zero, FMin(One, agreement)))
    IN  [score |-> ensemble_score,
         label |-> IF FLt(EnsembleThreshold, ensemble_score) THEN "Positive"
                   ELSE IF FLt(ensemble_score, FNeg(EnsembleThreshold)) THEN "Negative"
                   ELSE "Neutral",
         confidence |-> FMin(confidence, One)]

\* EnsembleScores whose agreement is 1 - |a - b|, the difference not halved
EnsembleScoresNoHalving(vader, textblob) ==
    LET ensemble_score == FAdd(FMul(vader.score, VaderWeight), FMul(textblob.score, TextBlobWeight))
        agreement == FSub(One, FAbs(FSub(vader.score, textblob.score)))
        confidence == FMul(FAbs(ensemble_score), FMax(Zero, FMin(One, agreement)))
    IN  [score |-> ensemble_score,
         label |-> IF FLe(EnsembleThreshold, ensemble_score) THEN "Positive"
                   ELSE IF FLe(ensemble_score, FNeg(EnsembleThreshold)) THEN "Negative"
                   ELSE "Neutral",
         confidence |-> FMin(confidence, One)]

\* _ensemble_scores
EnsembleScores(vader, textblob) ==
    LET vader_norm == vader.score
        textblob_norm == textblob.score
        ensemble_score == FAdd(FMul(vader_norm, VaderWeight), FMul(textblob_norm, TextBlobWeight))
        agreement == FSub(One, FMul(FAbs(FSub(vader_norm, textblob_norm)), Frac(1, 2)))
        confidence == FMul(FAbs(ensemble_score), FMax(Zero, FMin(One, agreement)))
    IN  [score |-> ensemble_score,
         label |-> IF FLe(EnsembleThreshold, ensemble_score) THEN "Positive"
                   ELSE IF FLe(ensemble_score, FNeg(EnsembleThreshold)) THEN "Negative"
                   ELSE "Neutral",
         confidence |-> FMin(confidence, One)]

\* the all-neutral result of analyze: for blank text and from its handler
NeutralSentiment ==
    [vader_score |-> Zero, vader_label |-> "Neutral",
     textblob_score |-> Zero, textblob_label |-> "Neutral",
     ensemble_score |-> Zero, ensemble_label |-> "Neutral",
     confidence |-> Zero]

NoCalls == [vader |-> FALSE, textblob |-> FALSE]

\* AnalyzeResult that takes only the empty string for blank
AnalyzeResultEmptyOnly(t, v, b) ==
    IF t = <<>> THEN NeutralSentiment
    ELSE IF v.raises THEN NeutralSentiment
    ELSE LET vader_result == AnalyzeVader(v.score)
             textblob_result == AnalyzeTextBlob(b)
             ensemble == EnsembleScores(vader_result, textblob_result)
         IN  [vader_score |-> vader_result.score, vader_label |-> vader_result.label,
              textblob_score |-> textblob_result.score, textblob_label |-> textblob_result.label,
              ensemble_score |-> ensemble.score, ensemble_label |-> ensemble.label,
              confidence |-> ensemble.confidence]

\* SentimentAnalyzer.analyze(t) when the scorer libraries yield v and b for t
AnalyzeResult(t, v, b) ==
    IF Strip(t) = <<>> THEN NeutralSentiment
    ELSE IF v.raises THEN NeutralSentiment            \* caught by the handler of analyze
    ELSE LET vader_result == AnalyzeVader(v.score)
             textblob_result == AnalyzeTextBlob(b)
             ensemble == EnsembleScores(vader_result, textblob_result)
         IN  [vader_score |-> vader_result.score, vader_label |-> vader_result.label,
              textblob_score |-> textblob_result.score, textblob_label |-> textblob_result.label,
              ensemble_score |-> ensemble.score, ensemble_label |-> ensemble.label,
              confidence |-> ensemble.confidence]

\* the scorers analyze calls: none for blank text, TextBlob only after VADER returned
AnalyzeCalls(t, v) ==
    [vader |-> Strip(t) # <<>>, textblob |-> Strip(t) # <<>> /\ ~v.raises]

\* sentiment is <<>> until analyze has returned, then <<result>>
NotAnalyzed == <<>>

\* SentimentAnalyzer.analyze(text)
Analyze ==
    /\ sentiment = NotAnalyzed
    /\ sentiment' = <<AnalyzeResult(text, vader_lib, textblob_lib)>>
    /\ scorer_calls' = AnalyzeCalls(text, vader_lib)
    /\ UNCHANGED <<text, vader_lib, textblob_lib, disagreement>>
    /\ UNCHANGED parserVars
    /\ UNCHANGED jobVars
    /\ UNCHANGED chatVars
    /\ UNCHANGED readerVars
    /\ UNCHANGED serviceVars

----------------------------------------------------------------------------
(* ExplainableAIService *)

ExplainThreshold == Frac(1, 10)         \* 0.1 in _score_to_label

\* _score_to_label
ScoreToLabel(score) ==
    IF FLt(ExplainThreshold, score) THEN "Positive"
    ELSE IF FLt(score, FNeg(ExplainThreshold)) THEN "Negative"
    ELSE "Neutral"

LargeDifference == Frac(5, 10)          \* 0.5 in _explain_disagreement

\* _explain_disagreement
ExplainDisagreement(vader_score, textblob_score) ==
    IF FLt(LargeDifference, FAbs(FSub(vader_score, textblob_score)))
    THEN "mixed or complex sentiment"
    ELSE "close but on opposite sides of neutral"

\* disagreement is <<>> until find_disagreements has returned, then <<result>>;
\* the result None is the record NoDisagreement
NoDisagreement == [disagreement |-> FALSE]
NotAsked == <<>>

\* find_disagreements
FindDisagreements(vader_score, textblob_score) ==
    LET vader_label == ScoreToLabel(vader_score)
        textblob_label == ScoreToLabel(textblob_score)
    IN  IF vader_label = textblob_label THEN NoDisagreement
        ELSE [disagreement |-> TRUE, vader_says |-> vader_label,
              textblob_says |-> textblob_label,
              possible_reason |-> ExplainDisagreement(vader_score, textblob_score)]

\* find_disagreements on the stored scores of an analyzed message
\* (generate_full_explanation, explain_sentiment)
Explain ==
    /\ sentiment # NotAnalyzed
    /\ disagreement = NotAsked
    /\ disagreement' = <<FindDisagreements(sentiment[1].vader_score, sentiment[1].textblob_score)>>
    /\ UNCHANGED <<text, vader_lib, textblob_lib, scorer_calls, sentiment>>
    /\ UNCHANGED parserVars
    /\ UNCHANGED jobVars
    /\ UNCHANGED chatVars
    /\ UNCHANGED readerVars
    /\ UNCHANGED serviceVars

----------------------------------------------------------------------------
(* Texts and scorer outcomes *)

Unit == 20 * ScoreSteps
Scores == {Frac(k, Unit) : k \in (-Unit)..Unit}

TextOk == <<"o", "k">>
Texts == {<<>>, <<" ", "\t">>, TextOk}

SentimentIdle ==
    /\ text = <<>>
    /\ vader_lib = Raises
    /\ textblob_lib = Raises
    /\ scorer_calls = NoCalls
    /\ sentiment = NotAnalyzed
    /\ disagreement = NotAsked

InitSentiment ==
    /\ text \in Texts
    /\ vader_lib \in {Returns(x) : x \in Scores} \cup {Raises}
    /\ textblob_lib \in {Returns(x) : x \in Scores} \cup {Raises}
    /\ scorer_calls = NoCalls
    /\ sentiment = NotAnalyzed
    /\ disagreement = NotAsked

----------------------------------------------------------------------------
(* The analysis jobs of main.py (API 1) and main_v2.py (API 2).            *)
(* A job id is a fresh uuid4; a message of a job is known by its key, the  *)
(* (timestamp, sender) pair its message id is built from.                  *)

Jobs == 1..MaxJobs
Keys == 1..MaxKeys

RECURSIVE KeySeqs(_)
KeySeqs(n) ==
    IF n = 0 THEN {<<>>}
    ELSE KeySeqs(n - 1) \cup {Append(q, k) : q \in KeySeqs(n - 1), k \in Keys}

\* the analyzed messages analyze_chat can return for an upload
MessageLists == KeySeqs(MaxMsgs)

NoValidMessages == "No valid messages found in chat file"
ScheduleError == "add_task failed"

\* an entry of a job registry; status "absent" is a job id with no entry
\* (has_result: the entry has a "result"; total: the messages of the result;
\* stored, overall_score and overall_label: the parsed_messages and overall
\* sentiment columns of API 2)
NoJob == [status |-> "absent", error |-> "", has_result |-> FALSE, total |-> 0,
          stored |-> 0, overall_score |-> Zero, overall_label |-> ""]
Processing == [NoJob EXCEPT !.status = "processing"]
FailedJob(err) == [NoJob EXCEPT !.status = "failed", !.error = err]
CreateJobError == "Failed to create job record"

\* the ensemble score analyze_chat gave the message of key k
KeyScores == <<Frac(3, 40), Frac(-1, 5), Frac(1, 2)>>
EnsembleScoreOf(k) == KeyScores[((k - 1) % Len(KeyScores)) + 1]

\* the request or task of a job id: which API it was uploaded to, where its
\* code stands, and the locals of run_analysis_task
\* (store_error: storing a message raised an exception; raised: the text of
\* the exception that reached the handler of the task, "" when none did)
NoTask == [api |-> 0, pc |-> "none", msgs |-> <<>>, next |-> 1,
           stored_count |-> 0, failed_count |-> 0, store_error |-> FALSE, raised |-> ""]

\* V1Upload with a job id that is not fresh
V1UploadReusedId(j) ==
    /\ job_store' = [job_store EXCEPT ![j] = Processing]
    /\ task' = [task EXCEPT ![j] = [NoTask EXCEPT !.api = 1, !.pc = "scheduling"]]
    /\ UNCHANGED <<jobs_table, messages_v1, messages_v2>>
    /\ UNCHANGED parserVars
    /\ UNCHANGED sentimentVars
    /\ UNCHANGED chatVars
    /\ UNCHANGED readerVars
    /\ UNCHANGED serviceVars

\* main.py analyze_chat_endpoint, up to job_store[job_id] = {"status": "processing"};
\* job_id = str(uuid4()) is an id no job has had
V1Upload(j) ==
    /\ task[j].pc = "none"
    /\ job_store' = [job_store EXCEPT ![j] = Processing]
    /\ task' = [task EXCEPT ![j] = [NoTask EXCEPT !.api = 1, !.pc = "scheduling"]]
    /\ UNCHANGED <<jobs_table, messages_v1, messages_v2>>
    /\ UNCHANGED parserVars
    /\ UNCHANGED sentimentVars
    /\ UNCHANGED chatVars
    /\ UNCHANGED readerVars
    /\ UNCHANGED serviceVars

\* main.py analyze_chat_endpoint: background_tasks.add_task and its handler
V1Schedule(j) ==
    /\ task[j].api = 1 /\ task[j].pc = "scheduling"
    /\ \E ok \in BOOLEAN :
         IF ok
         THEN /\ task' = [task EXCEPT ![j].pc = "queued"]
              /\ UNCHANGED job_store
         ELSE /\ job_store' = [job_store EXCEPT ![j] = FailedJob(ScheduleError)]
              /\ task' = [task EXCEPT ![j].pc = "done"]
    /\ UNCHANGED <<jobs_table, messages_v1, messages_v2>>
    /\ UNCHANGED parserVars
    /\ UNCHANGED sentimentVars
    /\ UNCHANGED chatVars
    /\ UNCHANGED readerVars
    /\ UNCHANGED serviceVars

\* main.py run_analysis_task: nlp_service.analyze_chat(content) and the
\* error-payload branch (analyze_chat turns its own exceptions into a payload)
V1Analyze(j) ==
    /\ task[j].api = 1 /\ task[j].pc = "queued"
    /\ \/ /\ job_store' = [job_store EXCEPT ![j] = FailedJob(NoValidMessages)]
          /\ task' = [task EXCEPT ![j].pc = "done"]
       \/ /\ \E ms \in MessageLists :
               task' = [task EXCEPT ![j].pc = "storing", ![j].msgs = ms]
          /\ UNCHANGED job_store
    /\ UNCHANGED <<jobs_table, messages_v1, messages_v2>>
    /\ UNCHANGED parserVars
    /\ UNCHANGED sentimentVars
    /\ UNCHANGED chatVars
    /\ UNCHANGED readerVars
    /\ UNCHANGED serviceVars

\* main.py run_analysis_task: one turn of the loop over messages.
\* insert_message inserts the row, swallows the IntegrityError of an id
\* that exists, and raises any other error, which ends the loop with a
\* warning.
V1StoreMessage(j) ==
    /\ task[j].api = 1 /\ task[j].pc = "storing"
    /\ task[j].next <= Len(task[j].msgs)
    /\ \E db_ok \in BOOLEAN :
         IF db_ok
         THEN /\ messages_v1' = messages_v1 \cup {<<j, task[j].msgs[task[j].next]>>}
              /\ task' = [task EXCEPT ![j].next = @ + 1]
         ELSE /\ task' = [task EXCEPT ![j].next = Len(task[j].msgs) + 1,
                                      ![j].store_error = TRUE]
              /\ UNCHANGED messages_v1
    /\ UNCHANGED <<job_store, jobs_table, messages_v2>>
    /\ UNCHANGED parserVars
    /\ UNCHANGED sentimentVars
    /\ UNCHANGED chatVars
    /\ UNCHANGED readerVars
    /\ UNCHANGED serviceVars

\* V1Finish that fails the job when storing a message raised
V1FinishFailedOnStoreError(j) ==
    /\ task[j].api = 1 /\ task[j].pc = "storing"
    /\ task[j].next > Len(task[j].msgs)
    /\ job_store' = [job_store EXCEPT ![j] =
                       IF task[j].store_error THEN FailedJob("storage failed")
                       ELSE [NoJob EXCEPT !.status = "complete", !.has_result = TRUE,
                                     !.total = Len(task[j].msgs)]]
    /\ task' = [task EXCEPT ![j].pc = "done"]
    /\ UNCHANGED <<jobs_table, messages_v1, messages_v2>>
    /\ UNCHANGED parserVars
    /\ UNCHANGED sentimentVars
    /\ UNCHANGED chatVars
    /\ UNCHANGED readerVars
    /\ UNCHANGED serviceVars

\* main.py run_analysis_task: job_store[job_id] = {"status": "complete", ...},
\* also after a storage error ("Continue anyway - don't fail the analysis")
V1Finish(j) ==
    /\ task[j].api = 1 /\ task[j].pc = "storing"
    /\ task[j].next > Len(task[j].msgs)
    /\ job_store' = [job_store EXCEPT ![j] =
                       [NoJob EXCEPT !.status = "complete", !.has_result = TRUE,
                                     !.total = Len(task[j].msgs)]]
    /\ task' = [task EXCEPT ![j].pc = "done"]
    /\ UNCHANGED <<jobs_table, messages_v1, messages_v2>>
    /\ UNCHANGED parserVars
    /\ UNCHANGED sentimentVars
    /\ UNCHANGED chatVars
    /\ UNCHANGED readerVars
    /\ UNCHANGED serviceVars

\* database_v2.py update_job_status: UPDATE jobs SET ... WHERE job_id = ?;
\* an error of the database is logged and the table stays as it is
UpdateJobStatus(table, j, row, db_ok) ==
    IF db_ok /\ table[j].status # "absent" THEN [table EXCEPT ![j] = row] ELSE table

\* main_v2.py analyze_chat_endpoint: add_task, no job record yet
V2Upload(j) ==
    /\ task[j].pc = "none"
    /\ task' = [task EXCEPT ![j] = [NoTask EXCEPT !.api = 2, !.pc = "queued"]]
    /\ UNCHANGED <<job_store, jobs_table, messages_v1, messages_v2>>
    /\ UNCHANGED parserVars
    /\ UNCHANGED sentimentVars
    /\ UNCHANGED chatVars
    /\ UNCHANGED readerVars
    /\ UNCHANGED serviceVars

\* main_v2.py run_analysis_task: create_job; when it returns False the task
\* raises and its handler updates a row that does not exist
V2CreateJob(j) ==
    /\ task[j].api = 2 /\ task[j].pc = "queued"
    /\ \E created, db_ok \in BOOLEAN :
         IF created
         THEN /\ jobs_table' = [jobs_table EXCEPT ![j] = Processing]
              /\ task' = [task EXCEPT ![j].pc = "created"]
         ELSE /\ jobs_table' = UpdateJobStatus(jobs_table, j, FailedJob(CreateJobError), db_ok)
              /\ task' = [task EXCEPT ![j].pc = "done", ![j].raised = CreateJobError]
    /\ UNCHANGED <<job_store, messages_v1, messages_v2>>
    /\ UNCHANGED parserVars
    /\ UNCHANGED sentimentVars
    /\ UNCHANGED chatVars
    /\ UNCHANGED readerVars
    /\ UNCHANGED serviceVars

\* main_v2.py run_analysis_task: nlp_service.analyze_chat(content) and the
\* parse-error branch
V2Analyze(j) ==
    /\ task[j].api = 2 /\ task[j].pc = "created"
    /\ \/ /\ \E db_ok \in BOOLEAN :
               jobs_table' = UpdateJobStatus(jobs_table, j, FailedJob(NoValidMessages), db_ok)
          /\ task' = [task EXCEPT ![j].pc = "done"]
       \/ /\ \E ms \in MessageLists :
               task' = [task EXCEPT ![j].pc = "storing", ![j].msgs = ms]
          /\ UNCHANGED jobs_table
    /\ UNCHANGED <<job_store, messages_v1, messages_v2>>
    /\ UNCHANGED parserVars
    /\ UNCHANGED sentimentVars
    /\ UNCHANGED chatVars
    /\ UNCHANGED readerVars
    /\ UNCHANGED serviceVars

\* main_v2.py run_analysis_task: one turn of the loop over messages:
\* insert_message (INSERT OR REPLACE) returns True, or returns False, or
\* the processing of the message raises; the loop goes on in each case
V2StoreMessage(j) ==
    /\ task[j].api = 2 /\ task[j].pc = "storing"
    /\ task[j].next <= Len(task[j].msgs)
    /\ \E outcome \in {"stored", "not stored", "raised"} :
         IF outcome = "stored"
         THEN /\ messages_v2' = messages_v2 \cup {<<j, task[j].msgs[task[j].next]>>}
              /\ task' = [task EXCEPT ![j].next = @ + 1, ![j].stored_count = @ + 1]
         ELSE /\ task' = [task EXCEPT ![j].next = @ + 1, ![j].failed_count = @ + 1,
                                      ![j].store_error = @ \/ outcome = "raised"]
              /\ UNCHANGED messages_v2
    /\ UNCHANGED <<job_store, jobs_table, messages_v1>>
    /\ UNCHANGED parserVars
    /\ UNCHANGED sentimentVars
    /\ UNCHANGED chatVars
    /\ UNCHANGED readerVars
    /\ UNCHANGED serviceVars

V2OverallThreshold == Frac(1, 10)      \* 0.1 in run_analysis_task of main_v2.py

\* main_v2.py run_analysis_task: "Calculate overall sentiment"
V2Overall(msgs, stored_count) ==
    IF stored_count > 0
    THEN LET ensemble_scores == [i \in 1..stored_count |-> EnsembleScoreOf(msgs[i])]
             overall_score == Average(ensemble_scores)
         IN  [score |-> overall_score,
              label |-> IF FLt(V2OverallThreshold, overall_score) THEN "Positive"
                        ELSE IF FLt(overall_score, FNeg(V2OverallThreshold)) THEN "Negative"
                        ELSE "Neutral"]
    ELSE [score |-> Zero, label |-> "Neutral"]

\* main_v2.py run_analysis_task: the overall sentiment and
\* update_job_status(job_id, "completed", ...)
V2Finish(j) ==
    /\ task[j].api = 2 /\ task[j].pc = "storing"
    /\ task[j].next > Len(task[j].msgs)
    /\ \E db_ok \in BOOLEAN :
         LET overall == V2Overall(task[j].msgs, task[j].stored_count) IN
         jobs_table' = UpdateJobStatus(jobs_table, j,
                          [NoJob EXCEPT !.status = "completed",
                                        !.total = Len(task[j].msgs),
                                        !.stored = task[j].stored_count,
                                        !.overall_score = overall.score,
                                        !.overall_label = overall.label],
                          db_ok)
    /\ task' = [task EXCEPT ![j].pc = "done"]
    /\ UNCHANGED <<job_store, messages_v1, messages_v2>>
    /\ UNCHANGED parserVars
    /\ UNCHANGED sentimentVars
    /\ UNCHANGED chatVars
    /\ UNCHANGED readerVars
    /\ UNCHANGED serviceVars

----------------------------------------------------------------------------
(* main.py get_analysis_results: a status read of API 1. The handler takes  *)
(* the entry of the job out of job_store once (job = job_store.get(job_id)) *)
(* and answers from that object; the tasks of the jobs run in worker        *)
(* threads and may write job_store between the two steps.                   *)

\* no status read is under way
NoRead == [pc |-> "idle", job |-> 0, entry |-> NoJob, response |-> NoJob]

ReaderIdle == reader = NoRead

NoResultAvailable == "No result available for this job."

\* Response that tests the status the registry holds when the answer is
\* made, and takes the other fields from the entry read before
ResponseLiveStatus(job) ==
    LET status == job_store[reader.job].status
    IN  IF status = "absent" THEN NoJob
        ELSE IF status = "processing" THEN Processing
        ELSE IF status = "failed" THEN FailedJob(job.error)
        ELSE IF ~job.has_result THEN FailedJob(NoResultAvailable)
        ELSE IF job.error # "" THEN FailedJob(job.error)
        ELSE [NoJob EXCEPT !.status = "complete", !.has_result = TRUE, !.total = job.total]

\* the answer of get_analysis_results from the entry job it has read;
\* status "absent" is the answer 404 "Job not found."
Response(job) ==
    IF job.status = "absent" THEN NoJob
    ELSE IF job.status = "processing" THEN Processing
    ELSE IF job.status = "failed" THEN FailedJob(job.error)
    ELSE IF ~job.has_result THEN FailedJob(NoResultAvailable)
    ELSE IF job.error # "" THEN FailedJob(job.error)
    ELSE [NoJob EXCEPT !.status = "complete", !.has_result = TRUE, !.total = job.total]

\* job = job_store.get(job_id)
ReadFetch(j) ==
    /\ reader.pc = "idle"
    /\ reader' = [NoRead EXCEPT !.pc = "fetched", !.job = j, !.entry = job_store[j]]
    /\ UNCHANGED jobVars
    /\ UNCHANGED parserVars
    /\ UNCHANGED sentimentVars
    /\ UNCHANGED chatVars
    /\ UNCHANGED serviceVars

\* the tests on job and the answer
ReadRespond ==
    /\ reader.pc = "fetched"
    /\ reader' = [reader EXCEPT !.pc = "responded", !.response = Response(reader.entry)]
    /\ UNCHANGED jobVars
    /\ UNCHANGED parserVars
    /\ UNCHANGED sentimentVars
    /\ UNCHANGED chatVars
    /\ UNCHANGED serviceVars

\* the answer is sent; the next request can come
ReadReturn ==
    /\ reader.pc = "responded"
    /\ reader' = NoRead
    /\ UNCHANGED jobVars
    /\ UNCHANGED parserVars
    /\ UNCHANGED sentimentVars
    /\ UNCHANGED chatVars
    /\ UNCHANGED serviceVars

JobsIdle ==
    /\ job_store = [j \in Jobs |-> NoJob]
    /\ jobs_table = [j \in Jobs |-> NoJob]
    /\ messages_v1 = {}
    /\ messages_v2 = {}
    /\ task = [j \in Jobs |-> NoTask]

----------------------------------------------------------------------------
(* NLPService.analyze_chat(content), called by the task of a job of API 1.  *)
(* It runs ChatParser.parse on content (the parser actions above), then its *)
(* loop over the messages, then the aggregation.                            *)

MediaOmitted == <<"<","M","e","d","i","a"," ","o","m","i","t","t","e","d",">">>
AnalysisFailed == "Analysis failed"
OverallThreshold == Frac(5, 100)        \* 0.05 in analyze_chat

\* the result of analyze_chat: error is "" in a result that is no error
\* payload; an error payload has no messages and no overall sentiment
NoResult == [error |-> "", total_messages |-> 0, failed_lines_count |-> 0,
             overall_score |-> Zero, overall_label |-> "Neutral", messages |-> <<>>]

NotCalled == [pc |-> "idle", i |-> 1, analyzed_messages |-> <<>>, sentiments |-> <<>>,
              result |-> NoResult]

ChatIdle == chat = NotCalled

\* what the two scorer libraries yield for the text of a message
ChatScorerOutcomes ==
    {<<Returns(Frac(1, 10)), Returns(Frac(1, 10))>>,
     <<Returns(Frac(-1, 5)), Returns(Frac(-1, 5))>>,
     <<Raises, Returns(One)>>}

\* the parse of analyze_chat has returned
Parsed == chat.pc = "parsing" /\ idx = Len(lines)

\* IsSkipped that looks for '<Media omitted>' anywhere in the text
IsSkippedContainsMedia(msg) == Contains(msg.message, MediaOmitted) \/ Strip(msg.message) = <<>>

\* if text == '<Media omitted>' or not text.strip()
IsSkipped(msg) == msg.message = MediaOmitted \/ Strip(msg.message) = <<>>

\* main.py run_analysis_task: results = nlp_service.analyze_chat(content)
V1AnalyzeChat(j) ==
    /\ task[j].api = 1 /\ task[j].pc = "queued"
    /\ chat.pc = "idle"
    /\ task' = [task EXCEPT ![j].pc = "analyzing"]
    /\ chat' = [chat EXCEPT !.pc = "parsing"]
    /\ UNCHANGED <<job_store, jobs_table, messages_v1, messages_v2>>
    /\ UNCHANGED parserVars
    /\ UNCHANGED sentimentVars
    /\ UNCHANGED readerVars
    /\ UNCHANGED serviceVars

\* ChatNoMessages without the test for no messages: an empty result
ChatNoMessagesEmptyResult ==
    /\ Parsed
    /\ messages = <<>>
    /\ chat' = [chat EXCEPT !.pc = "done", !.result = NoResult]
    /\ UNCHANGED parserVars
    /\ UNCHANGED sentimentVars
    /\ UNCHANGED jobVars
    /\ UNCHANGED readerVars
    /\ UNCHANGED serviceVars

\* if not messages: return {'error': ..., 'total_messages': 0, 'failed_lines_count': ...}
ChatNoMessages ==
    /\ Parsed
    /\ messages = <<>>
    /\ chat' = [chat EXCEPT !.pc = "done",
                            !.result = [NoResult EXCEPT !.error = NoValidMessages,
                                                        !.failed_lines_count = Len(failed_lines)]]
    /\ UNCHANGED parserVars
    /\ UNCHANGED sentimentVars
    /\ UNCHANGED jobVars
    /\ UNCHANGED readerVars
    /\ UNCHANGED serviceVars

\* the loop over messages: a media-only or blank message is skipped
ChatSkipMessage ==
    /\ Parsed
    /\ chat.i <= Len(messages)
    /\ IsSkipped(messages[chat.i])
    /\ chat' = [chat EXCEPT !.i = @ + 1]
    /\ UNCHANGED parserVars
    /\ UNCHANGED sentimentVars
    /\ UNCHANGED jobVars
    /\ UNCHANGED readerVars
    /\ UNCHANGED serviceVars

\* the analyzed message of msg, given the result of self.sentiment.analyze
AnalyzedMessage(msg, result) ==
    [timestamp |-> IF msg.timestamp # <<>> THEN msg.timestamp ELSE msg.raw_timestamp,
     raw_timestamp |-> msg.raw_timestamp,
     sender |-> msg.sender,
     message |-> msg.message,
     sentiment |-> result]

\* the loop over messages: the message is analyzed and appended
ChatAnalyzeMessage ==
    /\ Parsed
    /\ chat.i <= Len(messages)
    /\ ~IsSkipped(messages[chat.i])
    /\ \E libs \in ChatScorerOutcomes :
         LET msg == messages[chat.i]
             result == AnalyzeResult(msg.message, libs[1], libs[2])
         IN  chat' = [chat EXCEPT !.i = @ + 1,
                                  !.sentiments = Append(@, result.ensemble_score),
                                  !.analyzed_messages = Append(@, AnalyzedMessage(msg, result))]
    /\ UNCHANGED parserVars
    /\ UNCHANGED sentimentVars
    /\ UNCHANGED jobVars
    /\ UNCHANGED readerVars
    /\ UNCHANGED serviceVars

\* the loop over messages: a call of the loop body that has no handler of
\* its own (self.emotions.detect, emoji.emoji_list) raises; the handler of
\* analyze_chat returns {'error': f'Analysis failed: {e}'}
ChatMessageRaises ==
    /\ Parsed
    /\ chat.i <= Len(messages)
    /\ ~IsSkipped(messages[chat.i])
    /\ chat' = [chat EXCEPT !.pc = "done", !.result = [NoResult EXCEPT !.error = AnalysisFailed]]
    /\ UNCHANGED parserVars
    /\ UNCHANGED sentimentVars
    /\ UNCHANGED jobVars
    /\ UNCHANGED readerVars
    /\ UNCHANGED serviceVars

\* the overall label of analyze_chat
OverallLabel(avg_sentiment) ==
    IF FLe(OverallThreshold, avg_sentiment) THEN "Positive"
    ELSE IF FLe(avg_sentiment, FNeg(OverallThreshold)) THEN "Negative"
    ELSE "Neutral"

\* the aggregations after the loop and the result
ChatAggregate ==
    /\ Parsed
    /\ messages # <<>>
    /\ chat.i > Len(messages)
    /\ LET total_messages == Len(chat.analyzed_messages)
           avg_sentiment == Average(chat.sentiments)
       IN  chat' = [chat EXCEPT !.pc = "done",
                                !.result = [error |-> "",
                                            total_messages |-> total_messages,
                                            failed_lines_count |-> 0,
                                            overall_score |-> avg_sentiment,
                                            overall_label |-> OverallLabel(avg_sentiment),
                                            messages |-> chat.analyzed_messages]]
    /\ UNCHANGED parserVars
    /\ UNCHANGED sentimentVars
    /\ UNCHANGED jobVars
    /\ UNCHANGED readerVars
    /\ UNCHANGED serviceVars

\* msg_id without the job id: f"{timestamp}_{''.join(sender.split())}"
V1MessageKey(msg) ==
    LET NoSpace(c) == ~IsSpace(c) IN <<msg.timestamp, SelectSeq(msg.sender, NoSpace)>>

\* main.py run_analysis_task: what the task does with the result of analyze_chat
V1Result(j) ==
    /\ task[j].api = 1 /\ task[j].pc = "analyzing"
    /\ chat.pc = "done"
    /\ IF chat.result.error # ""
       THEN /\ job_store' = [job_store EXCEPT ![j] = FailedJob(chat.result.error)]
            /\ task' = [task EXCEPT ![j].pc = "done"]
       ELSE /\ task' = [task EXCEPT ![j].pc = "storing",
                                    ![j].msgs = [k \in 1..Len(chat.result.messages) |->
                                                    V1MessageKey(chat.result.messages[k])]]
            /\ UNCHANGED job_store
    /\ UNCHANGED <<jobs_table, messages_v1, messages_v2>>
    /\ UNCHANGED parserVars
    /\ UNCHANGED sentimentVars
    /\ UNCHANGED chatVars
    /\ UNCHANGED readerVars
    /\ UNCHANGED serviceVars

----------------------------------------------------------------------------
(* The stateless functions of the services: a call is a request, holding    *)
(* the name of the function and its arguments, and the reply it returns.    *)

NoRequest == [fn |-> "none"]
NoReply == [fn |-> "none"]

ServiceIdle == request = NoRequest /\ reply = NoReply

----------------------------------------------------------------------------
(* ExplainableAIService.extract_important_words(text, sentiment_type)       *)

\* \w of the re module, on the characters of the model
IsWordChar(c) ==
    \/ \E i \in 1..26 : c = Lowers[i] \/ c = Uppers[i]
    \/ IsDigit(c)
    \/ c = "_"

IsLowerLetter(c) == \E i \in 1..26 : c = Lowers[i]

\* the position after the run of [a-z] that starts at position p of s
LetterRunEnd(s, p) ==
    CHOOSE q \in (p + 1)..(Len(s) + 1) :
        /\ \A i \in p..(q - 1) : IsLowerLetter(s[i])
        /\ ~IsLowerLetter(At(s, q))

\* the positions of s where \b[a-z]+\b matches: a run of [a-z] with no word
\* character before it and none after it
WordStarts(s) ==
    {p \in 1..Len(s) :
        /\ IsLowerLetter(s[p])
        /\ ~IsWordChar(At(s, p - 1))
        /\ ~IsWordChar(At(s, LetterRunEnd(s, p)))}

WordAt(s, p) == SubSeq(s, p, LetterRunEnd(s, p) - 1)

\* re.findall(r'\b[a-z]+\b', s): the matches from position p on, in order
RECURSIVE FindWordsFrom(_, _)
FindWordsFrom(s, p) ==
    LET later == {q \in WordStarts(s) : q >= p}
        q == CHOOSE x \in later : \A y \in later : x <= y
    IN  IF later = {} THEN <<>>
        ELSE <<WordAt(s, q)>> \o FindWordsFrom(s, LetterRunEnd(s, q))

FindWords(s) == FindWordsFrom(s, 1)

sentiment_keywords ==
    [
      positive |->
        { <<"g","o","o","d">>,
          <<"g","r","e","a","t">>,
          <<"e","x","c","e","l","l","e","n","t">>,
          <<"a","m","a","z","i","n","g">>,
          <<"a","w","e","s","o","m","e">>,
          <<"l","o","v","e">>,
          <<"h","a","p","p","y">>,
          <<"w","o","n","d","e","r","f","u","l">>,
          <<"f","a","n","t","a","s","t","i","c">>,
          <<"b","e","s","t">>,
          <<"p","e","r","f","e","c","t">>,
          <<"b","e","a","u","t","i","f","u","l">>,
          <<"b","r","i","l","l","i","a","n","t">> },
      negative |->
        { <<"b","a","d">>,
          <<"t","e","r","r","i","b","l","e">>,
          <<"a","w","f","u","l">>,
          <<"h","o","r","r","i","b","l","e">>,
          <<"h","a","t","e">>,
          <<"s","a","d">>,
          <<"a","n","g","r","y">>,
          <<"w","o","r","s","t">>,
          <<"d","i","s","g","u","s","t","i","n","g">>,
          <<"p","a","t","h","e","t","i","c">>,
          <<"d","i","s","a","p","p","o","i","n","t","i","n","g">>,
          <<"p","o","o","r">> },
      neutral |->
        { <<"t","h","i","n","k">>,
          <<"b","e","l","i","e","v","e">>,
          <<"s","e","e","m">>,
          <<"a","p","p","e","a","r">>,
          <<"m","a","y","b","e">>,
          <<"p","e","r","h","a","p","s">>,
          <<"m","i","g","h","t">>,
          <<"p","r","o","b","a","b","l","y">>,
          <<"p","o","s","s","i","b","l","y">>,
          <<"c","o","n","s","i","d","e","r">>,
          <<"c","o","u","l","d">> }
    ]

TopWords == 10      \* important[:10]

\* s[:n]
Take(s, n) == SubSeq(s, 1, IF Len(s) < n THEN Len(s) ELSE n)

\* extract_important_words without the cut to the first ten
ExtractImportantWordsUncut(txt, sentiment_type) ==
    LET words == FindWords(Lower(txt))
        IsKeyword(word) == word \in sentiment_keywords[sentiment_type]
    IN  IF sentiment_type \in DOMAIN sentiment_keywords
        THEN SelectSeq(words, IsKeyword)
        ELSE <<>>

ExtractImportantWords(txt, sentiment_type) ==
    LET words == FindWords(Lower(txt))
        IsKeyword(word) == word \in sentiment_keywords[sentiment_type]
    IN  IF sentiment_type \in DOMAIN sentiment_keywords
        THEN Take(SelectSeq(words, IsKeyword), TopWords)
        ELSE <<>>

\* a call of extract_important_words
ExtractWords ==
    /\ request.fn = "extract_important_words" /\ reply.fn = "none"
    /\ reply' = [fn |-> request.fn,
                 important |-> ExtractImportantWords(request.text, request.sentiment_type)]
    /\ UNCHANGED request
    /\ UNCHANGED parserVars
    /\ UNCHANGED sentimentVars
    /\ UNCHANGED jobVars
    /\ UNCHANGED chatVars
    /\ UNCHANGED readerVars

----------------------------------------------------------------------------
(* main_v2.py detect_message_type(text). "EMOJI" stands for a character of  *)
(* the emoji ranges of emoji_pattern (U+1F300 to U+1F9FF).                  *)

media_markers == { <<"<","m","e","d","i","a"," ","o","m","i","t","t","e","d",">">>,
                   <<"i","m","a","g","e"," ","o","m","i","t","t","e","d">>,
                   <<"v","i","d","e","o"," ","o","m","i","t","t","e","d">> }

\* "<media omitted>" in text_lower or "image omitted" in ... or "video omitted" in ...
HasMediaMarker(txt) == \E m \in media_markers : Contains(Lower(txt), m)

\* the characters one repetition of the group of link_pattern takes: a
\* letter, a digit, a character of the range $-_ or of @.&+, or one of
\* !*\(), (the escape %XX begins with %, which is in the range $-_)
LinkPunctuation ==
    {"$", "%", "&", "'", "(", ")", "*", "+", ",", "-", ".", "/", ":", ";", "<", "=", ">",
     "?", "@", "[", "\\", "]", "^", "_", "!"}

IsLinkChar(c) ==
    \/ \E i \in 1..26 : c = Lowers[i] \/ c = Uppers[i]
    \/ IsDigit(c)
    \/ c \in LinkPunctuation

link_schemes == { <<"h","t","t","p",":","/","/">>, <<"h","t","t","p","s",":","/","/">> }

\* bool(re.search(link_pattern, text)): http, an optional s, ://, and at
\* least one character of the group
HasLink(txt) ==
    \E i \in 1..Len(txt), h \in link_schemes :
        /\ i + Len(h) <= Len(txt)
        /\ SubSeq(txt, i, i + Len(h) - 1) = h
        /\ IsLinkChar(txt[i + Len(h)])

IsEmoji(c) == c = "EMOJI"
IsNoEmoji(c) == ~IsEmoji(c)

\* emojis and not non_emoji_text
IsEmojiOnly(txt) ==
    /\ \E i \in 1..Len(txt) : IsEmoji(txt[i])
    /\ Strip(SelectSeq(txt, IsNoEmoji)) = <<>>

doc_extensions == { <<".","p","d","f">>,
                    <<".","d","o","c">>,
                    <<".","d","o","c","x">>,
                    <<".","x","l","s">>,
                    <<".","x","l","s","x">>,
                    <<".","p","p","t">>,
                    <<".","p","p","t","x">>,
                    <<".","z","i","p">>,
                    <<".","r","a","r">> }

\* any(ext in text_lower for ext in doc_extensions)
HasDocExtension(txt) == \E ext \in doc_extensions : Contains(Lower(txt), ext)

MessageType(message_type, is_media, is_emoji_only, is_link) ==
    [message_type |-> message_type, is_media |-> is_media,
     is_emoji_only |-> is_emoji_only, is_link |-> is_link]

\* detect_message_type with the test for a link ahead of the test for media
DetectMessageTypeLinkFirst(txt) ==
    IF txt = <<>> THEN MessageType("text", FALSE, FALSE, FALSE)
    ELSE IF HasLink(txt) THEN MessageType("link", FALSE, FALSE, TRUE)
    ELSE IF HasMediaMarker(txt) THEN MessageType("media", TRUE, FALSE, FALSE)
    ELSE IF IsEmojiOnly(txt) THEN MessageType("emoji_only", FALSE, TRUE, FALSE)
    ELSE IF HasDocExtension(txt) THEN MessageType("document", TRUE, FALSE, FALSE)
    ELSE MessageType("text", FALSE, FALSE, FALSE)

DetectMessageType(txt) ==
    IF txt = <<>> THEN MessageType("text", FALSE, FALSE, FALSE)
    ELSE IF HasMediaMarker(txt) THEN MessageType("media", TRUE, FALSE, FALSE)
    ELSE IF HasLink(txt) THEN MessageType("link", FALSE, FALSE, TRUE)
    ELSE IF IsEmojiOnly(txt) THEN MessageType("emoji_only", FALSE, TRUE, FALSE)
    ELSE IF HasDocExtension(txt) THEN MessageType("document", TRUE, FALSE, FALSE)
    ELSE MessageType("text", FALSE, FALSE, FALSE)

\* a call of detect_message_type
DetectType ==
    /\ request.fn = "detect_message_type" /\ reply.fn = "none"
    /\ reply' = [fn |-> request.fn, type |-> DetectMessageType(request.text)]
    /\ UNCHANGED request
    /\ UNCHANGED parserVars
    /\ UNCHANGED sentimentVars
    /\ UNCHANGED jobVars
    /\ UNCHANGED chatVars
    /\ UNCHANGED readerVars

----------------------------------------------------------------------------
(* EmotionDetector.detect(text). A character "U+hhhh" stands for the emoji  *)
(* of that code point.                                                      *)

EMOTIONS_MAP ==
    [
      joy |->
        { <<"h","a","p","p","y">>,
          <<"g","l","a","d">>,
          <<"a","w","e","s","o","m","e">>,
          <<"g","r","e","a","t">>,
          <<"f","a","n","t","a","s","t","i","c">>,
          <<"l","o","v","e">>,
          <<"e","x","c","e","l","l","e","n","t">>,
          <<"U+1F60A">>,
          <<"U+1F604">>,
          <<"U+1F389">> },
      anger |->
        { <<"a","n","g","r","y">>,
          <<"m","a","d">>,
          <<"f","u","r","i","o","u","s">>,
          <<"h","a","t","e">>,
          <<"t","e","r","r","i","b","l","e">>,
          <<"w","o","r","s","t">>,
          <<"U+1F620">>,
          <<"U+1F92C">>,
          <<"U+1F624">> },
      sadness |->
        { <<"s","a","d">>,
          <<"s","o","r","r","y">>,
          <<"h","u","r","t">>,
          <<"u","p","s","e","t">>,
          <<"d","o","w","n">>,
          <<"d","e","p","r","e","s","s","e","d">>,
          <<"U+1F622">>,
          <<"U+1F62D">>,
          <<"U+1F614">> },
      fear |->
        { <<"a","f","r","a","i","d">>,
          <<"s","c","a","r","e","d">>,
          <<"w","o","r","r","i","e","d">>,
          <<"a","n","x","i","o","u","s">>,
          <<"n","e","r","v","o","u","s">>,
          <<"U+1F628">>,
          <<"U+1F630">>,
          <<"U+1F61F">> },
      surprise |->
        { <<"w","o","w">>,
          <<"a","m","a","z","i","n","g">>,
          <<"s","h","o","c","k","i","n","g">>,
          <<"u","n","e","x","p","e","c","t","e","d">>,
          <<"U+1F632">>,
          <<"U+1F92F">>,
          <<"U+1F62F">> }
    ]

Emotions == DOMAIN EMOTIONS_MAP

\* s.count(kw): the occurrences of kw in s from position p on that do not
\* overlap, found from left to right
RECURSIVE CountFrom(_, _, _)
CountFrom(s, kw, p) ==
    LET hits == {i \in p..(Len(s) - Len(kw) + 1) : SubSeq(s, i, i + Len(kw) - 1) = kw}
        first == CHOOSE i \in hits : \A j \in hits : i <= j
    IN  IF hits = {} THEN 0 ELSE 1 + CountFrom(s, kw, first + Len(kw))

Count(s, kw) == CountFrom(s, kw, 1)

\* sum(f(x) for x in S), for a set S of different keywords
RECURSIVE SumCounts(_, _)
SumCounts(s, kws) ==
    IF kws = {} THEN 0
    ELSE LET kw == CHOOSE x \in kws : TRUE
         IN  Count(s, kw) + SumCounts(s, kws \ {kw})

\* emotion_count = sum(text_lower.count(kw) for kw in keywords)
EmotionCount(txt, emotion) == SumCounts(Lower(txt), EMOTIONS_MAP[emotion])

RECURSIVE SumOver(_, _)
SumOver(f, S) ==
    IF S = {} THEN 0
    ELSE LET x == CHOOSE y \in S : TRUE IN f[x] + SumOver(f, S \ {x})

NoEmotions == [e \in Emotions |-> Zero]

\* detect that divides the counts by the number of emotions
DetectEmotionsPerEmotion(txt) ==
    IF txt = <<>> \/ Strip(txt) = <<>> THEN NoEmotions
    ELSE LET emotions == [e \in Emotions |-> EmotionCount(txt, e)]
             total == SumOver(emotions, Emotions)
         IN  IF total > 0
             THEN [e \in Emotions |->
                     FMul(Frac(emotions[e], Cardinality(Emotions)), Frac(100, 1))]
             ELSE NoEmotions

DetectEmotions(txt) ==
    IF txt = <<>> \/ Strip(txt) = <<>> THEN NoEmotions
    ELSE LET emotions == [e \in Emotions |-> EmotionCount(txt, e)]
             total == SumOver(emotions, Emotions)
         IN  IF total > 0
             THEN [e \in Emotions |-> FMul(Frac(emotions[e], total), Frac(100, 1))]
             ELSE NoEmotions

\* a call of EmotionDetector.detect
Detect ==
    /\ request.fn = "detect" /\ reply.fn = "none"
    /\ reply' = [fn |-> request.fn, emotions |-> DetectEmotions(request.text)]
    /\ UNCHANGED request
    /\ UNCHANGED parserVars
    /\ UNCHANGED sentimentVars
    /\ UNCHANGED jobVars
    /\ UNCHANGED chatVars
    /\ UNCHANGED readerVars

----------------------------------------------------------------------------
(* database.py query_messages. A row of the messages table is a record of   *)
(* the columns the filters read; a timestamp is a day number, and a filter  *)
(* that is not supplied is 0 for a date and "" or <<>> for a text.          *)

\* text LIKE '%keyword%', for a keyword of letters: LIKE does not tell the
\* case of ASCII letters apart
Like(txt, keyword) == Contains(Lower(txt), Lower(keyword))

\* the WHERE clause query_messages builds from its arguments
Where(row, q) ==
    /\ q.start_date # 0 => row.timestamp >= q.start_date
    /\ q.end_date # 0 => row.timestamp <= q.end_date
    /\ q.sender # "" => row.sender = q.sender
    /\ q.keyword # <<>> => Like(row.text, q.keyword)
    /\ q.sentiment # "" => row.ensemble_label = q.sentiment
    /\ q.language # "" => row.language = q.language

\* the orders in which ORDER BY timestamp DESC can give the rows of a set
Descending(rows) ==
    {o \in [1..Cardinality(rows) -> rows] :
        /\ \A i, j \in DOMAIN o : i # j => o[i] # o[j]
        /\ \A i, j \in DOMAIN o : i < j => o[i].timestamp >= o[j].timestamp}

\* LIMIT limit OFFSET offset of the rows o
Page(o, limit, offset) ==
    SubSeq(o, offset + 1, IF offset + limit < Len(o) THEN offset + limit ELSE Len(o))

\* query_messages that counts the rows of the page
QueryMessagesCountsPage(o, q) ==
    LET IsSelected(row) == Where(row, q)
        selected == SelectSeq(o, IsSelected)
        page == Page(selected, q.limit, q.offset)
    IN  [messages |-> page, total |-> Len(page)]

\* query_messages on a table whose rows the first SELECT gives in the order
\* o: the page of the first SELECT and the count of the second
QueryMessages(o, q) ==
    LET IsSelected(row) == Where(row, q)
        selected == SelectSeq(o, IsSelected)
    IN  [messages |-> Page(selected, q.limit, q.offset), total |-> Len(selected)]

\* a call of query_messages
Query ==
    /\ request.fn = "query_messages" /\ reply.fn = "none"
    /\ \E o \in Descending(request.table) :
         reply' = [fn |-> request.fn, result |-> QueryMessages(o, request)]
    /\ UNCHANGED request
    /\ UNCHANGED parserVars
    /\ UNCHANGED sentimentVars
    /\ UNCHANGED jobVars
    /\ UNCHANGED chatVars
    /\ UNCHANGED readerVars

----------------------------------------------------------------------------
(* SummarizationService.analyze_emotional_trend(messages, time_window) *)

\* what analyze_emotional_trend returns for fewer than two messages and
\* after an exception: None
NoTrend == [windows |-> <<>>, overall_trend |-> "None",
            total_messages |-> 0, windows_count |-> 0]

\* the slice s[k:] of Python for k >= 0
SliceFrom(s, k) == IF k >= Len(s) THEN <<>> ELSE SubSeq(s, k + 1, Len(s))

\* sum(1 for s in window_sentiments if s == label)
CountLabel(window_sentiments, label) ==
    Cardinality({k \in DOMAIN window_sentiments : window_sentiments[k] = label})

TrendDirection(positive_count, negative_count) ==
    IF positive_count > negative_count THEN "positive"
    ELSE IF negative_count > positive_count THEN "negative"
    ELSE "neutral"

\* the record appended to windows
TrendWindow(number, window_sentiments) ==
    LET positive_count == CountLabel(window_sentiments, "Positive")
        negative_count == CountLabel(window_sentiments, "Negative")
    IN  [window |-> number,
         messages_count |-> Len(window_sentiments),
         positive |-> positive_count,
         negative |-> negative_count,
         trend |-> TrendDirection(positive_count, negative_count)]

\* sentiment_scores[-(i+1)%time_window or len(sentiment_scores):] ; the minus
\* applies to (i+1) before the %, whose result is in 0..time_window-1, and
\* "or" replaces 0 by the length
WindowSentiments(sentiment_scores, i, time_window) ==
    LET m == (0 - (i + 1)) % time_window
    IN  SliceFrom(sentiment_scores, IF m # 0 THEN m ELSE Len(sentiment_scores))

\* the loop over enumerate(messages) from index i on (i counts from 0);
\* sentiment_scores holds the labels of messages 0..i after the append
RECURSIVE TrendWindows(_, _, _, _)
TrendWindows(msgs, time_window, i, windows) ==
    IF i >= Len(msgs) THEN windows
    ELSE LET sentiment_scores == [k \in 1..(i + 1) |-> msgs[k].ensemble_label]
         IN  IF (i + 1) % time_window = 0 \/ i = Len(msgs) - 1
             THEN TrendWindows(msgs, time_window, i + 1,
                      Append(windows,
                             TrendWindow(Len(windows) + 1,
                                         WindowSentiments(sentiment_scores, i, time_window))))
             ELSE TrendWindows(msgs, time_window, i + 1, windows)

OverallTrend(windows) ==
    IF Len(windows) >= 2
    THEN LET first_window == windows[1].trend
             last_window == windows[Len(windows)].trend
         IN  IF first_window = "negative" /\ last_window = "positive" THEN "improving"
             ELSE IF first_window = "positive" /\ last_window = "negative" THEN "declining"
             ELSE IF first_window = "positive" \/ last_window = "positive" THEN "mostly positive"
             ELSE "mostly neutral"
    ELSE IF windows # <<>> THEN windows[1].trend ELSE "neutral"

\* analyze_emotional_trend; the % by a time_window of 0 raises
\* ZeroDivisionError, which the handler turns into None
AnalyzeEmotionalTrend(msgs, time_window) ==
    IF Len(msgs) < 2 THEN NoTrend
    ELSE IF time_window = 0 THEN NoTrend
    ELSE LET windows == TrendWindows(msgs, time_window, 0, <<>>)
         IN  [windows |-> windows,
              overall_trend |-> OverallTrend(windows),
              total_messages |-> Len(msgs),
              windows_count |-> Len(windows)]

\* a call of analyze_emotional_trend
AnalyzeTrend ==
    /\ request.fn = "analyze_emotional_trend" /\ reply.fn = "none"
    /\ reply' = [fn |-> request.fn,
                 result |-> AnalyzeEmotionalTrend(request.messages, request.time_window)]
    /\ UNCHANGED request
    /\ UNCHANGED parserVars
    /\ UNCHANGED sentimentVars
    /\ UNCHANGED jobVars
    /\ UNCHANGED chatVars
    /\ UNCHANGED readerVars

----------------------------------------------------------------------------
(* main_v2.py normalize_timestamp(timestamp_str) and the timestamp the task *)
(* of API 2 stores for a message                                            *)

\* the fields of a timestamp string: three digit fields with a separator
\* after the first and the second, then an optional comma and whitespace,
\* then two or three digit fields with ":" between them; ok when the string
\* is of that shape up to its end
TimestampFields(ts, n1, n2, n3, c1, t0, h, m) ==
    LET c  == n1 + n2 + n3 + 3                  \* after the date
        m0 == t0 + h + 1
        s0 == m0 + m + 1
        sec == IF At(ts, m0 + m) = ":" THEN DigitRun(ts, s0) ELSE 0
        end == IF At(ts, m0 + m) = ":" THEN s0 + sec ELSE m0 + m
    IN  [ok |-> /\ n1 > 0 /\ n2 > 0 /\ n3 > 0 /\ h > 0 /\ m > 0
                /\ At(ts, t0 + h) = ":"
                /\ (At(ts, m0 + m) = ":" => sec > 0)
                /\ end = Len(ts) + 1,
         f1 |-> SubSeq(ts, 1, n1), sep1 |-> At(ts, n1 + 1),
         f2 |-> SubSeq(ts, n1 + 2, n1 + n2 + 1), sep2 |-> At(ts, n1 + n2 + 2),
         f3 |-> SubSeq(ts, n1 + n2 + 3, c - 1),
         comma |-> c1 > c, spaces |-> t0 - c1,
         hh |-> SubSeq(ts, t0, t0 + h - 1), mm |-> SubSeq(ts, m0, m0 + m - 1),
         ss |-> SubSeq(ts, s0, s0 + sec - 1)]

\* the time fields, the time starting at t0
TimestampClock(ts, n1, n2, n3, c1, t0, h) ==
    TimestampFields(ts, n1, n2, n3, c1, t0, h, DigitRun(ts, t0 + h + 1))

\* the date fields n1, n2, n3 digits long, then the comma and the whitespace
TimestampDate(ts, n1, n2, n3, c1) ==
    TimestampClock(ts, n1, n2, n3, c1, SkipSpace(ts, c1), DigitRun(ts, SkipSpace(ts, c1)))

TimestampSeparated(ts, n1, n2, n3) ==
    TimestampDate(ts, n1, n2, n3,
                  IF At(ts, n1 + n2 + n3 + 3) = "," THEN n1 + n2 + n3 + 4
                  ELSE n1 + n2 + n3 + 3)

TimestampSecond(ts, n1, n2) == TimestampSeparated(ts, n1, n2, DigitRun(ts, n1 + n2 + 3))

TimestampFirst(ts, n1) == TimestampSecond(ts, n1, DigitRun(ts, n1 + 2))

TimestampParts(ts) == TimestampFirst(ts, DigitRun(ts, 1))

\* %M and %S of strptime: one or two digits, at most 59 (datetime takes no
\* second above 59)
IsSixtiethField(ds) == Len(ds) \in {1, 2} /\ ToInt(ds) \in 0..59

NoDateTime == [ok |-> FALSE, year |-> 0, month |-> 0, day |-> 0,
               hour |-> 0, minute |-> 0, second |-> 0]

\* datetime(y, mo, d, h, mi, s), a ValueError when the date does not exist
MakeDateTime(y, mo, d, h, mi, sec) ==
    IF y >= 1 /\ d <= DaysInMonth(y, mo)
    THEN [ok |-> TRUE, year |-> y, month |-> mo, day |-> d,
          hour |-> h, minute |-> mi, second |-> sec]
    ELSE NoDateTime

NumV2Formats == 8

\* datetime.strptime(timestamp_str, fmt) for the i-th format of normalize_timestamp:
\*   1 "%m/%d/%Y, %H:%M"   2 "%m/%d/%Y, %H:%M:%S"   3 "%d/%m/%Y, %H:%M"
\*   4 "%d/%m/%Y, %H:%M:%S"   5 "%Y-%m-%d %H:%M:%S"   6 "%Y-%m-%d %H:%M"
\*   7 "%m/%d/%y, %H:%M"   8 "%d/%m/%y, %H:%M"
\* A blank of a format stands for one or more whitespace characters.
V2Strptime(i, ts) ==
    LET p == TimestampParts(ts)
        slashes == p.sep1 = "/" /\ p.sep2 = "/" /\ p.comma /\ p.spaces >= 1
        dashes == p.sep1 = "-" /\ p.sep2 = "-" /\ ~p.comma /\ p.spaces >= 1
        seconds == i \in {2, 4, 5}
        clock == /\ IsHourField(p.hh) /\ IsSixtiethField(p.mm)
                 /\ IF seconds THEN IsSixtiethField(p.ss) ELSE p.ss = <<>>
        sec == IF seconds THEN ToInt(p.ss) ELSE 0
        month_first == IsMonthField(p.f1) /\ IsDayField(p.f2)
        day_first == IsDayField(p.f1) /\ IsMonthField(p.f2)
    IN  IF ~p.ok \/ ~clock THEN NoDateTime
        ELSE IF i \in {1, 2} /\ slashes /\ month_first /\ Len(p.f3) = 4
        THEN MakeDateTime(ToInt(p.f3), ToInt(p.f1), ToInt(p.f2), ToInt(p.hh), ToInt(p.mm), sec)
        ELSE IF i \in {3, 4} /\ slashes /\ day_first /\ Len(p.f3) = 4
        THEN MakeDateTime(ToInt(p.f3), ToInt(p.f2), ToInt(p.f1), ToInt(p.hh), ToInt(p.mm), sec)
        ELSE IF i \in {5, 6} /\ dashes /\ Len(p.f1) = 4 /\ IsMonthField(p.f2) /\ IsDayField(p.f3)
        THEN MakeDateTime(ToInt(p.f1), ToInt(p.f2), ToInt(p.f3), ToInt(p.hh), ToInt(p.mm), sec)
        ELSE IF i = 7 /\ slashes /\ month_first /\ Len(p.f3) = 2
        THEN MakeDateTime(Year2(p.f3), ToInt(p.f1), ToInt(p.f2), ToInt(p.hh), ToInt(p.mm), sec)
        ELSE IF i = 8 /\ slashes /\ day_first /\ Len(p.f3) = 2
        THEN MakeDateTime(Year2(p.f3), ToInt(p.f2), ToInt(p.f1), ToInt(p.hh), ToInt(p.mm), sec)
        ELSE NoDateTime

\* normalize_timestamp: the first format that parses, else None (NoDateTime)
NormalizeTimestamp(ts) ==
    LET parsed == {i \in 1..NumV2Formats : V2Strptime(i, ts).ok}
    IN  IF parsed = {} THEN NoDateTime
        ELSE V2Strptime(CHOOSE i \in parsed : \A j \in parsed : i <= j, ts)

\* datetime.isoformat() of a datetime without microseconds
IsoFormatSeconds(dt) ==
    Pad(dt.year, 4) \o <<"-">> \o Pad(dt.month, 2) \o <<"-">> \o Pad(dt.day, 2)
    \o <<"T">> \o Pad(dt.hour, 2) \o <<":">> \o Pad(dt.minute, 2)
    \o <<":">> \o Pad(dt.second, 2)

\* what datetime.now() can give while the task runs: a time after the chat
\* was exported
WallClocks ==
    {MakeDateTime(2026, 11, 6, 9, 0, 1), MakeDateTime(2026, 11, 6, 9, 0, 2)}

\* the timestamp run_analysis_task of main_v2.py stores for a message:
\* normalize_timestamp(msg['timestamp']), or datetime.now() when that is None
StoreTimestamp ==
    /\ request.fn = "normalize_timestamp" /\ reply.fn = "none"
    /\ LET timestamp == NormalizeTimestamp(request.msg.timestamp) IN
       IF timestamp.ok
       THEN reply' = [fn |-> request.fn, timestamp |-> timestamp, wall_clock |-> FALSE]
       ELSE \E now \in WallClocks :
              reply' = [fn |-> request.fn, timestamp |-> now, wall_clock |-> TRUE]
    /\ UNCHANGED request
    /\ UNCHANGED parserVars
    /\ UNCHANGED sentimentVars
    /\ UNCHANGED jobVars
    /\ UNCHANGED chatVars
    /\ UNCHANGED readerVars

----------------------------------------------------------------------------
(* Chat texts *)

LineAlice == <<"8","/","1","5","/","2","0","2","4",","," ","1","0",":","3","0"," ","P","M"," ","-"," ","A","l","i","c","e",":"," ","H","e","l","l","o">>
LineWorld == <<" ","w","o","r","l","d",":"," ","w","i","d","e"," ">>
LineBlank == <<" ">>
LineBob == <<"8","/","1","5","/","2","4",","," ","1","0",":","3","1"," ","P","M"," ","-"," ","LRM"," ","B","o","b",":"," ","C","r","e","a","t","e","d"," ","G","r","o","u","p"," ","x">>
LineYou == <<"2","5","/","1","2","/","2","0","2","3",","," ","9",":","0","5"," ","-"," ","Y","O","U",":"," ","h","i">>
LineIso == <<"2","0","2","4","-","0","8","-","1","5",","," ","2","1",":","3","0"," ","-"," ","B","o","b",":"," ","r","e",":"," ","o","k">>
LineAdded == <<"a","d","d","e","d">>
LineSec == <<"1","/","2","/","2","0","2","4",","," ","1","0",":","3","0",":","1","5"," ","-"," ","A","l","\t","i","c","e",":">>

LineAmbiguous == <<"1","/","2","/","2","0","2","4",","," ","1","0",":","3","0"," ","-"," ","A","l",":"," ","h","i">>

LinePool == {LineAlice, LineWorld, LineBlank, LineBob, LineYou, LineIso, LineAdded, LineSec,
             LineAmbiguous}
LineBreaks == {<<"\n">>, <<"\r", "\n">>}

RECURSIVE Join(_, _)
Join(ls, sep) ==
    IF ls = <<>> THEN <<>>
    ELSE IF Len(ls) = 1 THEN ls[1]
    ELSE ls[1] \o sep \o Join(Tail(ls), sep)

RECURSIVE SeqsUpTo(_, _)
SeqsUpTo(S, n) ==
    IF n = 0 THEN {<<>>}
    ELSE LET shorter == SeqsUpTo(S, n - 1)
         IN  shorter \cup {Append(q, x) : q \in shorter, x \in S}

ChatTexts == {Join(ls, sep) : ls \in SeqsUpTo(LinePool, MaxLines), sep \in LineBreaks}

----------------------------------------------------------------------------
(* Specification of the parser *)

vars == <<content, lines, idx, messages, failed_lines,
          text, vader_lib, textblob_lib, scorer_calls, sentiment, disagreement,
          job_store, jobs_table, messages_v1, messages_v2, task, chat, reader,
          request, reply>>

InitParser ==
    /\ content \in ChatTexts
    /\ lines = SplitLines(content)
    /\ idx = 0
    /\ messages = <<>>
    /\ failed_lines = <<>>
    /\ SentimentIdle
    /\ JobsIdle
    /\ ChatIdle
    /\ ReaderIdle
    /\ ServiceIdle

NextParser == ParseBlank \/ ParseStart \/ ParseContinuation \/ ParseFailed



SpecParser == InitParser /\ [][NextParser]_vars

----------------------------------------------------------------------------
(* Specification of the sentiment analysis of one text *)

ParserIdle ==
    /\ content = <<>>
    /\ lines = <<>>
    /\ idx = 0
    /\ messages = <<>>
    /\ failed_lines = <<>>

InitAnalyzer == ParserIdle /\ InitSentiment /\ JobsIdle /\ ChatIdle /\ ReaderIdle /\ ServiceIdle

NextAnalyzer == Analyze \/ Explain

SpecAnalyzer == InitAnalyzer /\ [][NextAnalyzer]_vars

----------------------------------------------------------------------------
(* Specification of the analysis jobs *)

InitJobs == ParserIdle /\ SentimentIdle /\ JobsIdle /\ ChatIdle /\ ReaderIdle /\ ServiceIdle

NextJobs ==
    \E j \in Jobs :
        \/ V1Upload(j) \/ V1Schedule(j) \/ V1Analyze(j) \/ V1StoreMessage(j) \/ V1Finish(j)
        \/ V2Upload(j) \/ V2CreateJob(j) \/ V2Analyze(j) \/ V2StoreMessage(j) \/ V2Finish(j)

SpecJobs == InitJobs /\ [][NextJobs]_vars

----------------------------------------------------------------------------
(* Specification of the analysis jobs with a fair background worker: a task *)
(* that has been added runs, and each of its steps returns.                 *)

\* the steps of the background task of job j
TaskStep(j) ==
    \/ V1Analyze(j) \/ V1StoreMessage(j) \/ V1Finish(j)
    \/ V2CreateJob(j) \/ V2Analyze(j) \/ V2StoreMessage(j) \/ V2Finish(j)

FairWorker == \A j \in Jobs : WF_vars(V1Schedule(j)) /\ WF_vars(TaskStep(j))

SpecJobsFair == InitJobs /\ [][NextJobs]_vars /\ FairWorker

----------------------------------------------------------------------------
(* Specification of the in-memory registry of API 1: the uploads and tasks  *)
(* of the jobs, and status reads, in every interleaving.                    *)

InitRegistry == ParserIdle /\ SentimentIdle /\ JobsIdle /\ ChatIdle /\ ReaderIdle /\ ServiceIdle

NextRegistry ==
    \/ \E j \in Jobs :
          \/ V1Upload(j) \/ V1Schedule(j) \/ V1Analyze(j) \/ V1StoreMessage(j) \/ V1Finish(j)
          \/ ReadFetch(j)
    \/ ReadRespond
    \/ ReadReturn

SpecRegistry == InitRegistry /\ [][NextRegistry]_vars

----------------------------------------------------------------------------
(* Specification of one upload to API 1, from the upload to the end of its  *)
(* task, with the chat analysis of its content.                             *)

LineMedia == <<"8","/","1","5","/","2","0","2","4",","," ","1","0",":","3","2"," ","P","M"," ","-"," ","B","o","b",":"," ","<","M","e","d","i","a"," ","o","m","i","t","t","e","d",">">>

ChatLinePool == {LineAlice, LineMedia, LineSec, LineWorld}
ChatContents == {Join(ls, <<"\n">>) : ls \in SeqsUpTo(ChatLinePool, MaxLines)} \ {<<>>}

InitChat ==
    /\ content \in ChatContents
    /\ lines = SplitLines(content)
    /\ idx = 0
    /\ messages = <<>>
    /\ failed_lines = <<>>
    /\ SentimentIdle
    /\ JobsIdle
    /\ ChatIdle
    /\ ReaderIdle
    /\ ServiceIdle

NextChat ==
    \/ V1Upload(1) \/ V1Schedule(1) \/ V1AnalyzeChat(1)
    \/ (chat.pc = "parsing" /\ NextParser)
    \/ ChatNoMessages \/ ChatSkipMessage \/ ChatAnalyzeMessage \/ ChatMessageRaises
    \/ ChatAggregate
    \/ V1Result(1) \/ V1StoreMessage(1) \/ V1Finish(1)

SpecChat == InitChat /\ [][NextChat]_vars

----------------------------------------------------------------------------
(* Specification of the calls of extract_important_words *)

WordPool == { <<"G","o","o","d">>,
             <<"l","o","v","e">>,
             <<"b","a","d">>,
             <<"g","o","o","d","2">>,
             <<"m","a","y","b","e">>,
             <<"B","E","S","T","!">> }

RECURSIVE Repeat(_, _)
Repeat(w, n) == IF n = 0 THEN <<>> ELSE <<w>> \o Repeat(w, n - 1)

\* a few words, then one word over and over, with a space between words
WordTexts ==
    {Join(head \o Repeat(w, n), <<" ">>) :
        head \in SeqsUpTo(WordPool, MaxPrefix), w \in WordPool, n \in 0..MaxRepeat}

SentimentTypes == {"positive", "negative", "neutral", "mixed"}

InitWords ==
    /\ ParserIdle /\ SentimentIdle /\ JobsIdle /\ ChatIdle /\ ReaderIdle
    /\ \E t \in WordTexts, c \in SentimentTypes :
          request = [fn |-> "extract_important_words", text |-> t, sentiment_type |-> c]
    /\ reply = NoReply

NextWords == ExtractWords

SpecWords == InitWords /\ [][NextWords]_vars

----------------------------------------------------------------------------
(* Specification of the calls of detect_message_type *)

PartPool == { <<"<","M","e","d","i","a"," ","o","m","i","t","t","e","d",">">>,
             <<"i","m","a","g","e"," ","o","m","i","t","t","e","d">>,
             <<"h","t","t","p",":","/","/","a",".","c","o">>,
             <<"h","t","t","p","s",":","/","/","b",".","c","o","/","c",".","p","d","f">>,
             <<"H","T","T","P",":","/","/","d",".","c","o">>,
             <<"h","t","t","p",":","/","/">>,
             <<"EMOJI">>,
             <<"r",".","P","D","F">>,
             <<"h","i">> }

TypedTexts == {Join(ps, <<" ">>) : ps \in SeqsUpTo(PartPool, MaxParts)}

InitMessageType ==
    /\ ParserIdle /\ SentimentIdle /\ JobsIdle /\ ChatIdle /\ ReaderIdle
    /\ \E t \in TypedTexts : request = [fn |-> "detect_message_type", text |-> t]
    /\ reply = NoReply

NextMessageType == DetectType

SpecMessageType == InitMessageType /\ [][NextMessageType]_vars

----------------------------------------------------------------------------
(* Specification of the calls of EmotionDetector.detect *)

EmotionPool == { <<"h","a","p","p","y">>,
                <<"M","A","D">>,
                <<"w","o","w","o","w">>,
                <<"s","a","d">>,
                <<"U+1F60A">>,
                <<"h","i">>,
                <<" ">> }

EmotionTexts == {Join(ps, <<" ">>) : ps \in SeqsUpTo(EmotionPool, MaxParts)}

InitEmotions ==
    /\ ParserIdle /\ SentimentIdle /\ JobsIdle /\ ChatIdle /\ ReaderIdle
    /\ \E t \in EmotionTexts : request = [fn |-> "detect", text |-> t]
    /\ reply = NoReply

NextEmotions == Detect

SpecEmotions == InitEmotions /\ [][NextEmotions]_vars

----------------------------------------------------------------------------
(* Specification of the calls of query_messages *)

TextAwesome == <<"T","h","i","s"," ","i","s"," ","A","w","e","s","o","m","e">>
TextTerrible == <<"t","e","r","r","i","b","l","e"," ","d","a","y">>
KeywordAwe == <<"a","w","e">>

Row(id, timestamp, sender, txt, ensemble_label, language) ==
    [id |-> id, timestamp |-> timestamp, sender |-> sender, text |-> txt,
     ensemble_label |-> ensemble_label, language |-> language]

RowPool ==
    { Row(1, 1, "Alice", TextAwesome, "Positive", "en"),
      Row(2, 2, "Alice", TextTerrible, "Negative", "en"),
      Row(3, 2, "Bob", TextAwesome, "Positive", "hi"),
      Row(4, 3, "Bob", TextTerrible, "Positive", "en") }

Queries ==
    [fn : {"query_messages"}, table : SUBSET RowPool,
     start_date : {0, 2}, end_date : {0, 2},
     sender : {"", "Alice"}, keyword : {<<>>, KeywordAwe},
     sentiment : {"", "Positive"}, language : {"", "en"},
     limit : 1..MaxLimit, offset : 0..MaxLimit]

InitQuery ==
    /\ ParserIdle /\ SentimentIdle /\ JobsIdle /\ ChatIdle /\ ReaderIdle
    /\ request \in Queries
    /\ reply = NoReply

NextQuery == Query

SpecQuery == InitQuery /\ [][NextQuery]_vars

----------------------------------------------------------------------------
(* Specification of the timestamp the task of API 2 stores for a message *)

DatePool == { <<"8","/","1","5","/","2","0","2","4">>,
              <<"1","5","/","0","8","/","2","0","2","4">>,
              <<"2","0","2","4","-","0","8","-","1","5">>,
              <<"8","/","1","5","/","2","4">>,
              <<"1","5","/","8","/","2","4">>,
              <<"1","/","2","/","2","0","2","4">>,
              <<"2","/","3","0","/","2","0","2","4">>,
              <<"1","3","/","1","3","/","2","0","2","4">>,
              <<"2","0","2","4","-","8","-","5">> }

TimePool == { <<"1","0",":","3","0"," ","P","M">>,
              <<"2","2",":","3","0">>,
              <<"1","0",":","3","0">>,
              <<"9",":","0","5"," ","a","m">>,
              <<"1","0",":","3","0",":","1","5">>,
              <<"0",":","0","0">>,
              <<"2","2",":","3","0",":","5","9">> }

LineTail == <<" ","-"," ","A","l",":"," ","h","i">>

\* the start lines of a chat with a date of DatePool and a time of TimePool
TimestampLines ==
    {l \in {d \o <<",", " ">> \o t \o LineTail : d \in DatePool, t \in TimePool} :
        Match(l).ok}

InitTimestamp ==
    /\ ParserIdle /\ SentimentIdle /\ JobsIdle /\ ChatIdle /\ ReaderIdle
    /\ \E l \in TimestampLines :
          request = [fn |-> "normalize_timestamp", msg |-> NewMessage(l)]
    /\ reply = NoReply

NextTimestamp == StoreTimestamp

SpecTimestamp == InitTimestamp /\ [][NextTimestamp]_vars

----------------------------------------------------------------------------
(* Specification of the emotional trend *)

MaxTrend == 4          \* messages of a conversation
MaxWindow == 3         \* largest time_window

TrendLabels == {"Positive", "Negative", "Neutral"}

TrendMessages ==
    UNION {[1..n -> [ensemble_label : TrendLabels]] : n \in 0..MaxTrend}

InitTrend ==
    /\ ParserIdle /\ SentimentIdle /\ JobsIdle /\ ChatIdle /\ ReaderIdle
    /\ request \in [fn : {"analyze_emotional_trend"}, messages : TrendMessages,
                    time_window : 0..MaxWindow]
    /\ reply = NoReply

NextTrend == AnalyzeTrend

SpecTrend == InitTrend /\ [][NextTrend]_vars

----------------------------------------------------------------------------
(* Properties of the parser *)

IsBlankLine(line) == Strip(line) = <<>>
IsStartLine(line) == ~IsBlankLine(line) /\ Match(line).ok

\* the positions, in order, of the message-start lines among lines[1..n]
StartPositions(n) ==
    LET IsStartAt(i) == IsStartLine(lines[i])
    IN  SelectSeq([i \in 1..n |-> i], IsStartAt)

\* the body a message started at line i has once lines[i+1..n] up to the
\* next message-start line are merged: blank lines are left out
RECURSIVE MergedBody(_, _, _)
MergedBody(body, i, n) ==
    IF i > n \/ IsStartLine(lines[i]) THEN body
    ELSE IF IsBlankLine(lines[i]) THEN MergedBody(body, i + 1, n)
    ELSE MergedBody(body \o <<"\n">> \o Strip(lines[i]), i + 1, n)

\* C1: a non-blank line that does not match the start pattern and comes
\* after a message was parsed appends "\n" and the trimmed line to the body
\* of the last message and changes nothing else: not the number of
\* messages, not the sender, timestamp and raw_timestamp of that message,
\* no earlier message, not failed_lines.
C1_ContinuationFrame ==
    [][(/\ idx < Len(lines)
        /\ idx' = idx + 1
        /\ ~IsBlankLine(lines[idx + 1])
        /\ ~Match(lines[idx + 1]).ok
        /\ messages # <<>>)
       => (/\ Len(messages') = Len(messages)
           /\ \A i \in 1..(Len(messages) - 1) : messages'[i] = messages[i]
           /\ messages'[Len(messages)].message
                = messages[Len(messages)].message \o <<"\n">> \o Strip(lines[idx + 1])
           /\ messages'[Len(messages)].sender = messages[Len(messages)].sender
           /\ messages'[Len(messages)].timestamp = messages[Len(messages)].timestamp
           /\ messages'[Len(messages)].raw_timestamp = messages[Len(messages)].raw_timestamp
           /\ failed_lines' = failed_lines)]_vars

\* a continuation line with surrounding whitespace was merged into a message
C1_Witness ==
    /\ idx > 1
    /\ messages # <<>>
    /\ ~IsBlankLine(lines[idx]) /\ ~Match(lines[idx]).ok
    /\ Strip(lines[idx]) # lines[idx]
    /\ Contains(messages[Len(messages)].message, <<"\n">> \o Strip(lines[idx]))

\* C2: the messages are, in order, the message-start lines read so far: as
\* many messages as non-blank lines that match the start pattern, the k-th
\* message started by the k-th such line; its body is that line's body
\* merged with the non-blank lines up to the next start line, so a blank
\* line neither starts nor continues a message; when every non-blank line
\* matches, no body holds a merged line and failed_lines is empty.
C2_MessagesAreStartLines ==
    LET starts == StartPositions(idx) IN
    /\ Len(messages) = Len(starts)
    /\ \A k \in 1..Len(starts) :
         LET m == Match(lines[starts[k]]) IN
         /\ messages[k].raw_timestamp = m.date \o <<",", " ">> \o m.time
         /\ messages[k].message = MergedBody(Strip(m.message), starts[k] + 1, idx)
    /\ (\A i \in 1..idx : IsBlankLine(lines[i]) \/ Match(lines[i]).ok)
         => /\ failed_lines = <<>>
            /\ \A k \in 1..Len(messages) : ~Contains(messages[k].message, <<"\n">>)

\* a whole text of a message-start line, a blank line and a line after it
C2_Witness ==
    /\ idx = Len(lines)
    /\ idx >= 3
    /\ IsStartLine(lines[1])
    /\ IsBlankLine(lines[2])
    /\ ~IsBlankLine(lines[3])

\* C3: failed_lines is, in input order, the non-blank lines read before
\* the first message-start line (none of them matches); once a message was
\* parsed it grows no more.
C3_FailedLinesAreLeading ==
    LET starts == StartPositions(idx)
        lead == IF starts = <<>> THEN idx ELSE starts[1] - 1
        NonBlank(line) == ~IsBlankLine(line)
    IN  failed_lines = SelectSeq(SubSeq(lines, 1, lead), NonBlank)

\* a failed line, then a message, then a line that matches nothing
C3_Witness ==
    /\ idx = Len(lines)
    /\ failed_lines # <<>>
    /\ messages # <<>>
    /\ ~IsBlankLine(lines[idx]) /\ ~Match(lines[idx]).ok

\* C4: the sender of a message is System exactly when the normalized
\* captured sender, lowercased, is system, you or group notification, or
\* the lowercased body of the start line contains secured, created group,
\* changed, left group or added; else it is the normalized captured sender.
C4_SystemSender ==
    LET starts == StartPositions(idx) IN
    \A k \in 1..Len(messages) :
        LET m == Match(lines[starts[k]])
            captured == Strip(SelectSeq(Strip(m.sender), IsPrintable))
            body == Lower(Strip(m.message))
            system == \/ Lower(captured) \in {AliasSystem, AliasYou, AliasGroupNotification}
                      \/ \E kw \in {KwSecured, KwCreatedGroup, KwChanged, KwLeftGroup, KwAdded} :
                            Contains(body, kw)
        IN  /\ (messages[k].sender = SystemSender) <=> system
            /\ ~system => messages[k].sender = captured

\* messages of all three kinds: System by its body though the captured
\* sender is no alias, System by an alias in capitals, and a plain sender
C4_Witness ==
    LET starts == StartPositions(idx) IN
    /\ Len(messages) = 3
    /\ \E k \in 1..3 :
         /\ messages[k].sender = SystemSender
         /\ Lower(NormalizeSender(Match(lines[starts[k]]).sender)) \notin SystemAliases
         /\ Contains(Lower(messages[k].message), KwCreatedGroup)
    /\ \E k \in 1..3 :
         /\ messages[k].sender = SystemSender
         /\ Lower(NormalizeSender(Match(lines[starts[k]]).sender)) = AliasYou
    /\ \E k \in 1..3 : messages[k].sender # SystemSender

\* C16: every message-start line gives a message (no error); its
\* raw_timestamp is the raw "date, time" string; its timestamp is the ISO
\* form of the first of the five templates, in their order, that parses
\* "date, time", and the raw "date, time" string when no template parses.
C16_TimestampFirstTemplate ==
    LET starts == StartPositions(idx) IN
    /\ Len(messages) = Len(starts)
    /\ \A k \in 1..Len(messages) :
         LET m == Match(lines[starts[k]])
             raw == m.date \o <<",", " ">> \o m.time
             Parses(i) == Strptime(i, m.date, m.time).ok
         IN  /\ messages[k].raw_timestamp = raw
             /\ (\A i \in 1..5 : ~Parses(i)) => messages[k].timestamp = raw
             /\ \A i \in 1..5 :
                  (Parses(i) /\ \A j \in 1..(i - 1) : ~Parses(j))
                  => messages[k].timestamp = IsoFormat(Strptime(i, m.date, m.time))

\* a message whose "date, time" two templates parse to different dates,
\* stamped by the earlier template, and a message no template parses
C16_Witness ==
    LET starts == StartPositions(idx) IN
    /\ idx = Len(lines)
    /\ \E k \in 1..Len(messages) :
         LET m == Match(lines[starts[k]]) IN
         /\ Strptime(3, m.date, m.time).ok /\ Strptime(5, m.date, m.time).ok
         /\ Strptime(3, m.date, m.time) # Strptime(5, m.date, m.time)
         /\ messages[k].timestamp = IsoFormat(Strptime(3, m.date, m.time))
    /\ \E k \in 1..Len(messages) :
         /\ messages[k].timestamp = messages[k].raw_timestamp
         /\ \A i \in 1..5 : ~Strptime(i, Match(lines[starts[k]]).date, Match(lines[starts[k]]).time).ok

\* the dash separator of a message-start line: the first dash after the
\* first colon of the line (the colon of the time)
DashOf(line) == Find(line, "-", Find(line, ":", 1) + 1)

\* C17: for every message-start line the sender is the text between the
\* dash separator and the first colon after it, and the body everything
\* after that colon: the sender holds no colon and every later colon of the
\* line is in the body of the message.
C17_SenderUpToFirstColon ==
    LET starts == StartPositions(idx) IN
    \A k \in 1..Len(messages) :
        LET line == lines[starts[k]]
            d == DashOf(line)
            c == Find(line, ":", d + 1)
            between == SubSeq(line, d + 1, c - 1)
            after == SubSeq(line, c + 1, Len(line))
            captured == Strip(SelectSeq(Strip(between), IsPrintable))
        IN  /\ d > 0 /\ c > d
            /\ messages[k].sender \in {captured, SystemSender}
            /\ Find(messages[k].sender, ":", 1) = 0
            /\ messages[k].message = MergedBody(Strip(after), starts[k] + 1, idx)

\* a message whose start line has a colon in its body, kept in the body
C17_Witness ==
    LET starts == StartPositions(idx) IN
    /\ idx = Len(lines)
    /\ \E k \in 1..Len(messages) :
         LET line == lines[starts[k]]
             c == Find(line, ":", DashOf(line) + 1)
         IN  /\ Find(line, ":", c + 1) > 0
             /\ messages[k].sender # SystemSender
             /\ Find(messages[k].message, ":", 1) > 0

----------------------------------------------------------------------------
(* Properties of the sentiment ensemble *)

\* analyze ran the two scorers on a non-blank text and both returned
BothScored ==
    /\ sentiment # NotAnalyzed
    /\ Strip(text) # <<>>
    /\ ~vader_lib.raises /\ ~textblob_lib.raises

C6_EnsembleLabel ==
    sentiment # NotAnalyzed =>
        LET e == sentiment[1].ensemble_score
            l == sentiment[1].ensemble_label
        IN  /\ l \in {"Positive", "Negative", "Neutral"}
            /\ (l = "Positive") <=> (20 * e.n >= e.d)
            /\ (l = "Negative") <=> (20 * e.n <= -e.d)
            /\ (l = "Neutral") <=> (20 * e.n < e.d /\ 20 * e.n > -e.d)

\* two different scores whose ensemble score is exactly 0.05: Positive
C6_Witness ==
    /\ BothScored
    /\ vader_lib.score # textblob_lib.score
    /\ sentiment[1].ensemble_score = Frac(1, 20)
    /\ sentiment[1].ensemble_label = "Positive"

\* C7: the ensemble confidence is |0.6*a + 0.4*b| * clamp(1 - |a - b|/2, 0, 1);
\* it lies in [0, 1] and is at most the absolute ensemble score.
C7_Confidence ==
    BothScored =>
        LET a == vader_lib.score
            b == textblob_lib.score
            c == sentiment[1].confidence
            e == sentiment[1].ensemble_score
            blend == FAdd(FMul(Frac(6, 10), a), FMul(Frac(4, 10), b))
            agree == FSub(One, FMul(FAbs(FSub(a, b)), Frac(1, 2)))
            clamped == IF FLt(agree, Zero) THEN Zero ELSE IF FLt(One, agree) THEN One ELSE agree
        IN  /\ c = FMul(FAbs(blend), clamped)
            /\ 0 <= c.n /\ c.n <= c.d
            /\ c.n * e.d <= Abs(e.n) * c.d

\* the scorers differ by 0.5: the confidence is three quarters of the
\* absolute ensemble score
C7_Witness ==
    /\ BothScored
    /\ FSub(vader_lib.score, textblob_lib.score) = Frac(1, 2)
    /\ sentiment[1].ensemble_score # Zero
    /\ sentiment[1].confidence = FMul(FAbs(sentiment[1].ensemble_score), Frac(3, 4))

\* the label Scorer B gives to its polarity
TextBlobLabelOf(b) ==
    IF 10 * b.n > b.d THEN "Positive" ELSE IF 10 * b.n < -b.d THEN "Negative" ELSE "Neutral"

\* the label Scorer A gives to its compound score
VaderLabelOf(a) ==
    IF 20 * a.n >= a.d THEN "Positive" ELSE IF 20 * a.n <= -a.d THEN "Negative" ELSE "Neutral"

\* C8: when exactly one scorer raises on a non-blank text, analyze reports
\* 0.0 and Neutral for that scorer only, the other scorer's own score and
\* label, and the weighted sum with 0.0 for the failing scorer as the
\* ensemble score (0.4*b if Scorer A failed, 0.6*a if Scorer B failed).
C8_OneScorerFails ==
    (/\ sentiment # NotAnalyzed
     /\ Strip(text) # <<>>
     /\ vader_lib.raises # textblob_lib.raises)
    => LET r == sentiment[1]
           a == vader_lib.score
           b == textblob_lib.score
       IN  IF vader_lib.raises
           THEN /\ r.vader_score = Zero /\ r.vader_label = "Neutral"
                /\ r.textblob_score = b /\ r.textblob_label = TextBlobLabelOf(b)
                /\ r.ensemble_score = FMul(Frac(4, 10), b)
           ELSE /\ r.textblob_score = Zero /\ r.textblob_label = "Neutral"
                /\ r.vader_score = a /\ r.vader_label = VaderLabelOf(a)
                /\ r.ensemble_score = FMul(Frac(6, 10), a)

\* C9: find_disagreements returns None exactly when the label Scorer A
\* gives its score (>= 0.05 Positive, <= -0.05 Negative) equals the label
\* Scorer B gives its score (> 0.1 Positive, < -0.1 Negative): a message is
\* a disagreement exactly when its vader_label and textblob_label differ.
C9_DisagreementIffLabelsDiffer ==
    disagreement # NotAsked =>
        /\ (disagreement[1] = NoDisagreement)
             <=> (VaderLabelOf(sentiment[1].vader_score) = TextBlobLabelOf(sentiment[1].textblob_score))
        /\ (disagreement[1] = NoDisagreement)
             <=> (sentiment[1].vader_label = sentiment[1].textblob_label)

\* C18: for the empty string and for a text of whitespace only, analyze
\* returns score 0.0 and label Neutral for Scorer A, Scorer B and the
\* ensemble, and confidence 0.0, and calls neither scorer.
C18_BlankTextNeutral ==
    (/\ sentiment # NotAnalyzed
     /\ \A i \in 1..Len(text) : text[i] \in {" ", "\t", "\n", "\r"})
    => /\ sentiment[1].vader_score = Frac(0, 1) /\ sentiment[1].vader_label = "Neutral"
       /\ sentiment[1].textblob_score = Frac(0, 1) /\ sentiment[1].textblob_label = "Neutral"
       /\ sentiment[1].ensemble_score = Frac(0, 1) /\ sentiment[1].ensemble_label = "Neutral"
       /\ sentiment[1].confidence = Frac(0, 1)
       /\ ~scorer_calls.vader /\ ~scorer_calls.textblob

\* a text of whitespace analyzed, for which both scorers would have
\* returned the score 1
C18_Witness ==
    /\ sentiment # NotAnalyzed
    /\ text # <<>>
    /\ \A i \in 1..Len(text) : text[i] \in {" ", "\t", "\n", "\r"}
    /\ ~vader_lib.raises /\ vader_lib.score = One
    /\ ~textblob_lib.raises /\ textblob_lib.score = One
    /\ sentiment[1].ensemble_label = "Neutral"

----------------------------------------------------------------------------
(* Properties of the job registries *)

Terminal == {"complete", "completed", "failed"}

\* the status of a registry entry moves only from absent to processing
\* and from processing to a terminal status, and then stays
StatusMoves(old, new) ==
    \/ new = old
    \/ old = "absent" /\ new = "processing"
    \/ old = "processing" /\ new \in Terminal

\* C10: the status of a job in the job registry only ever moves from
\* processing to one terminal status (complete, completed or failed); a
\* terminal status never changes again, is never set back to processing,
\* and a finished job is never run again.
C10_StatusOnlyForward ==
    [][\A j \in Jobs :
          /\ StatusMoves(job_store[j].status, job_store'[j].status)
          /\ StatusMoves(jobs_table[j].status, jobs_table'[j].status)
          /\ task[j].pc = "done" => task'[j].pc = "done"]_vars

\* one job complete although a message could not be stored, and another failed
C10_Witness ==
    /\ \E j \in Jobs : job_store[j].status = "complete" /\ task[j].store_error
    /\ \E j \in Jobs : jobs_table[j].status = "failed" /\ task[j].pc = "done"

\* the entry of job j in the registry of the API it was uploaded to
Registry(j) == IF task[j].api = 2 THEN jobs_table[j] ELSE job_store[j]

\* C11: when an exception is raised inside the background task of a job,
\* in either API, the task does not propagate it and the registry entry of
\* the job ends failed with the error text, so a later status lookup of the
\* job reports failed with that error.
C11_TaskExceptionEndsFailed ==
    \A j \in Jobs :
        (task[j].pc = "done" /\ task[j].raised # "")
        => /\ Registry(j).status = "failed"
           /\ Registry(j).error = task[j].raised

StoredKeys(j) == {m[2] : m \in {r \in messages_v2 : r[1] = j}}

RECURSIVE SumOfKeys(_)
SumOfKeys(S) ==
    IF S = {} THEN Frac(0, 1)
    ELSE LET k == CHOOSE x \in S : TRUE
         IN  FAdd(EnsembleScoreOf(k), SumOfKeys(S \ {k}))

MeanOfKeys(S) ==
    IF S = {} THEN Frac(0, 1) ELSE FMul(SumOfKeys(S), Frac(1, Cardinality(S)))

\* the label of an overall score by the ensemble thresholds
EnsembleLabelOf(e) ==
    IF 20 * e.n >= e.d THEN "Positive" ELSE IF 20 * e.n <= -e.d THEN "Negative" ELSE "Neutral"

\* the overall sentiment of a result of analyze_chat is the mean of the
\* ensemble scores of its messages, labelled by the ensemble thresholds
OverallOfChat ==
    (chat.pc = "done" /\ chat.result.error = "") =>
        LET out == chat.result.messages
            scores == [k \in 1..Len(out) |-> out[k].sentiment.ensemble_score]
            mean == IF out = <<>> THEN Frac(0, 1) ELSE FMul(FSum(scores), Frac(1, Len(out)))
        IN  /\ chat.result.overall_score = mean
            /\ chat.result.overall_label = EnsembleLabelOf(mean)

\* C19: the overall sentiment of a run is the mean of the ensemble scores
\* of exactly the messages in the output of the run (0 when there are
\* none), labelled Positive from 0.05 up, Negative from -0.05 down, else
\* Neutral: in the result of analyze_chat, and in the job record the task
\* of API 2 writes, over the messages it stored.
C19_OverallIsMeanOfOutput ==
    /\ OverallOfChat
    /\ \A j \in Jobs :
         jobs_table[j].status = "completed" =>
             LET mean == MeanOfKeys(StoredKeys(j))
             IN  /\ jobs_table[j].overall_score = mean
                 /\ jobs_table[j].overall_label = EnsembleLabelOf(mean)

\* the answer of a status read is a whole record of the job it asked for
ReadIsWhole ==
    reader.pc = "responded" =>
        LET r == reader.response
            now == job_store[reader.job]
        IN  /\ r.status \in {"absent", "processing", "complete", "failed"}
            /\ r.status \in {"absent", "processing"} => (~r.has_result /\ r.error = "")
            /\ r.status = "complete" => /\ r.has_result /\ r.error = ""
                                        /\ now.status = "complete" /\ r.total = now.total
            /\ r.status = "failed" => /\ ~r.has_result
                                      /\ now.status = "failed" /\ r.error = now.error

\* a step changes the entry of a job only if it is a step of the upload or the
\* task of that job
WritesOwnEntry ==
    \A j \in Jobs : job_store'[j] # job_store[j] => task'[j] # task[j]

\* C12: in every interleaving of the tasks and the status reads of API 1, a
\* read of job j answers with a whole record (processing, or complete with
\* the result, or failed with the error text of the job) and never with
\* fields of two writes; and the task of job j writes only the entry of job
\* j in job_store.
C12_ReadsSeeWholeRecords == [](ReadIsWhole) /\ [][WritesOwnEntry]_vars

\* a read that took the entry while the job was processing answers
\* processing after the task has written complete, while the task of
\* another job is storing
C12_Witness ==
    /\ reader.pc = "responded"
    /\ reader.response.status = "processing"
    /\ job_store[reader.job].status = "complete"
    /\ \E k \in Jobs : k # reader.job /\ task[k].pc = "storing"

----------------------------------------------------------------------------
(* Properties of the chat analysis *)

\* no line of the chat text starts a message
NoStartLine == \A i \in 1..Len(lines) : ~IsStartLine(lines[i])

\* C15: when the parser recognizes no message in the chat text,
\* analyze_chat returns the error result 'No valid messages found in chat
\* file' with total_messages 0 and failed_lines_count the number of failed
\* lines (it raises nothing); the job of the upload ends failed with that
\* error and is never complete.
C15_NoMessagesFailsJob ==
    NoStartLine =>
        /\ chat.pc = "done" =>
             /\ chat.result.error = "No valid messages found in chat file"
             /\ chat.result.total_messages = 0
             /\ chat.result.failed_lines_count = Len(failed_lines)
             /\ chat.result.failed_lines_count
                  = Cardinality({i \in 1..Len(lines) : ~IsBlankLine(lines[i])})
        /\ job_store[1].status # "complete"
        /\ task[1].pc = "done" /\ chat.pc = "done" =>
             /\ job_store[1].status = "failed"
             /\ job_store[1].error = "No valid messages found in chat file"

\* the task of an upload of two lines that start no message has ended
C15_Witness ==
    /\ NoStartLine
    /\ Len(failed_lines) >= 2
    /\ chat.pc = "done"
    /\ chat.result.failed_lines_count = Len(failed_lines)
    /\ task[1].pc = "done"
    /\ job_store[1].status = "failed"

\* C20: the messages analyze_chat returns are the messages of the parser
\* without those whose body is blank or exactly '<Media omitted>', in the
\* same order, each with the sender, timestamp and body the parser gave
\* it; total_messages is their number.
C20_MessagesKeptInOrder ==
    (chat.pc = "done" /\ chat.result.error = "") =>
        LET Kept(m) == /\ m.message # <<"<","M","e","d","i","a"," ","o","m","i","t","t","e","d",">">>
                       /\ \E i \in 1..Len(m.message) : m.message[i] \notin {" ", "\t", "\n", "\r"}
            kept == SelectSeq(messages, Kept)
            out == chat.result.messages
        IN  /\ Len(out) = Len(kept)
            /\ \A k \in 1..Len(out) :
                 /\ out[k].sender = kept[k].sender
                 /\ out[k].timestamp = kept[k].timestamp
                 /\ out[k].message = kept[k].message
            /\ chat.result.total_messages = Len(out)

\* a media-only message left out, and a message of '<Media omitted>' and a
\* merged line kept
C20_Witness ==
    /\ chat.pc = "done" /\ chat.result.error = ""
    /\ \E k \in 1..Len(messages) : messages[k].message = MediaOmitted
    /\ Len(chat.result.messages) >= 1
    /\ Len(chat.result.messages) < Len(messages)
    /\ \E k \in 1..Len(chat.result.messages) :
         /\ Contains(chat.result.messages[k].message, MediaOmitted)

\* the number of different message ids among the messages of job j
DistinctIds(j) == Cardinality({task[j].msgs[k] : k \in 1..Len(task[j].msgs)})

\* C13: when processing or storing one message of a job raises, only that
\* message is skipped: the run goes on to its end, it does not abort, and
\* every other message is still processed and stored.
C13_OnlyFailingMessageSkipped ==
    /\ (chat.pc = "done" /\ messages # <<>>) => chat.result.error = ""
    /\ (task[1].pc = "done" /\ task[1].store_error)
         => Cardinality({m \in messages_v1 : m[1] = 1}) >= DistinctIds(1) - 1

----------------------------------------------------------------------------
(* Properties of the stateless services *)

\* the positions of the lowercased text of the request where a word of the
\* keyword set K starts
MatchStarts(K) ==
    LET s == Lower(request.text)
    IN  {p \in WordStarts(s) : WordAt(s, p) \in K}

\* C21: extract_important_words returns, for a category of positive,
\* negative and neutral, at most 10 words, which are the first matches in
\* text order of the lowercased word tokens of the text that are in the
\* keyword set of the category; for any other category it returns the
\* empty list.
C21_FirstTenKeywords ==
    reply.fn = "extract_important_words" =>
        IF request.sentiment_type \in {"positive", "negative", "neutral"}
        THEN LET M == MatchStarts(sentiment_keywords[request.sentiment_type])
                 out == reply.important
             IN  /\ Len(out) <= 10
                 /\ Len(out) = IF Cardinality(M) < 10 THEN Cardinality(M) ELSE 10
                 /\ \A k \in 1..Len(out) :
                      \E p \in M : /\ Cardinality({q \in M : q < p}) = k - 1
                                   /\ out[k] = WordAt(Lower(request.text), p)
        ELSE reply.important = <<>>

\* a text with more than ten matches, of two different keywords, answered
\* with ten words
C21_Witness ==
    /\ reply.fn = "extract_important_words"
    /\ request.sentiment_type = "positive"
    /\ Cardinality(MatchStarts(sentiment_keywords.positive)) > 10
    /\ Len(reply.important) = 10
    /\ reply.important[1] # reply.important[10]

\* C22: detect_message_type gives every message one type of text, media,
\* emoji_only, link and document, by the first test that fires in the order
\* media marker, link, emoji only, document extension, else text: a text
\* with a media marker and a link is media, a text with a link and a
\* document extension is link; at most one of the flags is_media,
\* is_emoji_only and is_link is true.
C22_FirstCheckDecidesType ==
    reply.fn = "detect_message_type" =>
        LET t == request.text
            r == reply.type
        IN  /\ r.message_type \in {"text", "media", "emoji_only", "link", "document"}
            /\ r.message_type =
                 (IF t # <<>> /\ HasMediaMarker(t) THEN "media"
                  ELSE IF t # <<>> /\ HasLink(t) THEN "link"
                  ELSE IF t # <<>> /\ IsEmojiOnly(t) THEN "emoji_only"
                  ELSE IF t # <<>> /\ HasDocExtension(t) THEN "document"
                  ELSE "text")
            /\ Cardinality({f \in {"is_media", "is_emoji_only", "is_link"} : r[f]}) <= 1

\* a text with a media marker and a link, answered media
C22_Witness ==
    /\ reply.fn = "detect_message_type"
    /\ HasMediaMarker(request.text) /\ HasLink(request.text)
    /\ reply.type.message_type = "media" /\ reply.type.is_media /\ ~reply.type.is_link

\* the occurrences of the keywords of emotion e in the text of the request
OccurrencesOf(e) ==
    LET s == Lower(request.text)
        n == [kw \in EMOTIONS_MAP[e] |-> Count(s, kw)]
    IN  SumOver(n, EMOTIONS_MAP[e])

TotalOccurrences ==
    OccurrencesOf("joy") + OccurrencesOf("anger") + OccurrencesOf("sadness")
    + OccurrencesOf("fear") + OccurrencesOf("surprise")

SatisfiesFilters(row) ==
    /\ request.start_date = 0 \/ row.timestamp >= request.start_date
    /\ request.end_date = 0 \/ row.timestamp <= request.end_date
    /\ request.sender = "" \/ row.sender = request.sender
    /\ request.keyword = <<>> \/ Contains(Lower(row.text), Lower(request.keyword))
    /\ request.sentiment = "" \/ row.ensemble_label = request.sentiment
    /\ request.language = "" \/ row.language = request.language

\* C24: for every set of stored messages and every combination of the
\* filters sender, sentiment, keyword, language and date range,
\* query_messages returns as total the number of the stored messages that
\* satisfy all the supplied filters, whatever limit and offset are, and a
\* page of at most limit messages, each of which satisfies all the filters.
C24_TotalCountsAllMatches ==
    reply.fn = "query_messages" =>
        LET page == reply.result.messages IN
        /\ reply.result.total = Cardinality({row \in request.table : SatisfiesFilters(row)})
        /\ Len(page) <= request.limit
        /\ \A i \in 1..Len(page) : page[i] \in request.table /\ SatisfiesFilters(page[i])

\* a query with two filters whose matches are more than the page holds
C24_Witness ==
    /\ reply.fn = "query_messages"
    /\ request.sender = "" /\ request.sentiment = "Positive" /\ request.keyword # <<>>
    /\ request.limit = 1 /\ request.offset = 1
    /\ reply.result.total = 2
    /\ Len(reply.result.messages) = 1
    /\ Cardinality(request.table) = 4

----------------------------------------------------------------------------
(* Properties of the life of a job *)

\* the analyze endpoint has returned the id of job j to the caller
Returned(j) ==
    /\ task[j].pc \in {"queued", "created", "analyzing", "storing", "done"}
    /\ ~(task[j].api = 1 /\ job_store[j] = FailedJob(ScheduleError))

Ended(j) == Registry(j).status \in Terminal

\* C25: every upload for which the analyze endpoint has returned a job id
\* reaches a terminal status (complete or completed, or failed) in the
\* registry of its API, when the background worker is scheduled fairly and
\* every call of the task returns; no job stays processing or absent from
\* the registry for ever.
C25_EveryJobTerminates == \A j \in Jobs : Returned(j) ~> Ended(j)

\* C26: from the moment the analyze endpoint has returned a job id, a status
\* lookup of the id finds the job in every reachable state, in job_store of
\* main.py and in the jobs table of main_v2.py: it is never not found, and
\* it is processing until the background task writes a terminal status.
C26_ReturnedJobIsFound ==
    \A j \in Jobs :
        Returned(j) => /\ Registry(j).status # "absent"
                       /\ task[j].pc # "done" => Registry(j).status = "processing"

\* the rows of job j in the messages table of the API of the job
RowsOf(j) ==
    IF task[j].api = 2 THEN {r \in messages_v2 : r[1] = j} ELSE {r \in messages_v1 : r[1] = j}

\* the number of messages the task of job j reported as stored: API 1 logs
\* the number of messages when its loop has ended without an exception,
\* API 2 counts the inserts that returned True
ReportedStored(j) == IF task[j].api = 2 THEN task[j].stored_count ELSE Len(task[j].msgs)

\* C27: after a job has finished storing, every analyzed message of the job
\* is present as a row of its own: the number of message rows of the job
\* equals the number of messages the task reported as stored, also when two
\* messages of the job have the same sender and the same timestamp.
C27_EveryStoredMessageHasItsRow ==
    \A j \in Jobs :
        (task[j].pc = "done" /\ Registry(j).status \in {"complete", "completed"}
         /\ ~(task[j].api = 1 /\ task[j].store_error))
        => Cardinality(RowsOf(j)) = ReportedStored(j)

\* the parser normalized the timestamp of the message of the request
ParserNormalized == request.msg.timestamp # request.msg.raw_timestamp

\* C28: for every message whose timestamp the parser normalized to ISO
\* form, the timestamp the task of API 2 stores for the message, and uses in
\* its message id, is the same point in time as the timestamp of the
\* parser; the wall-clock time of the processing is used only for messages
\* whose timestamp matches no known format.
C28_StoredTimestampIsParsedTimestamp ==
    reply.fn = "normalize_timestamp" =>
        /\ ParserNormalized =>
             /\ ~reply.wall_clock
             /\ IsoFormatSeconds(reply.timestamp) = request.msg.timestamp
        /\ reply.wall_clock => ~ParserNormalized

\* C29 as stated: whenever the two scorers give a text the same label, the
\* ensemble label of analyze is that label.
C29_CommonLabelIsEnsembleLabel ==
    sentiment # NotAnalyzed =>
        (sentiment[1].vader_label = sentiment[1].textblob_label
            => sentiment[1].ensemble_label = sentiment[1].vader_label)

\* C29 amended: whenever the two scorers both give Positive or both give
\* Negative, the ensemble label of analyze is that label.
C29_CommonPolarityIsEnsembleLabel ==
    sentiment # NotAnalyzed =>
        ((/\ sentiment[1].vader_label = sentiment[1].textblob_label
          /\ sentiment[1].vader_label \in {"Positive", "Negative"})
            => sentiment[1].ensemble_label = sentiment[1].vader_label)

\* both scorers Negative as weakly as the score grid allows, ensemble Negative
C29_Witness ==
    /\ BothScored
    /\ sentiment[1].vader_score = Frac(-1, 20)
    /\ sentiment[1].vader_label = "Negative"
    /\ sentiment[1].textblob_label = "Negative"
    /\ FLt(Frac(-3, 20), sentiment[1].textblob_score)
    /\ sentiment[1].ensemble_label = "Negative"

\* the labels of the messages of window w when the messages are cut into
\* consecutive windows of time_window messages
MessagesOfWindow(w) ==
    LET n == Len(request.messages)
        first == (w - 1) * request.time_window + 1
        last == IF w * request.time_window < n THEN w * request.time_window ELSE n
    IN  [k \in 1..(last - first + 1) |-> request.messages[first + k - 1].ensemble_label]

RECURSIVE SumMessagesCount(_)
SumMessagesCount(windows) ==
    IF windows = <<>> THEN 0
    ELSE windows[1].messages_count + SumMessagesCount(Tail(windows))

\* C30: for at least two messages and every window size, the windows are
\* the consecutive groups of time_window messages (the last may be shorter):
\* their messages_count sum to the number of messages, and positive and
\* negative count exactly the messages of the window.
C30_WindowsPartitionMessages ==
    (/\ reply.fn = "analyze_emotional_trend"
     /\ Len(request.messages) >= 2
     /\ request.time_window >= 1)
    => LET n == Len(request.messages)
           windows == reply.result.windows
       IN  /\ Len(windows) = (n + request.time_window - 1) \div request.time_window
           /\ SumMessagesCount(windows) = n
           /\ \A w \in DOMAIN windows :
                /\ windows[w].messages_count = Len(MessagesOfWindow(w))
                /\ windows[w].positive = CountLabel(MessagesOfWindow(w), "Positive")
                /\ windows[w].negative = CountLabel(MessagesOfWindow(w), "Negative")

====
